---- MODULE Spec2Model ----
(***************************************************************************)
(* A model of github.com/timehop/golog/log (src/log/logging.go): the       *)
(* package-level state, the logger instances, the six severity methods,    *)
(* the key/value pairing with its corruption fallback, and the two         *)
(* renderers (plaintext and JSON).                                         *)
(***************************************************************************)
EXTENDS Integers, Sequences, FiniteSets, TLC

VARIABLES
    defaultPrefix,   \* var defaultPrefix string
    defaultOutput,   \* var defaultOutput io.Writer (a sink id)
    defaultLevel,    \* var defaultLevel LogLevel
    defaultFlags,    \* var defaultFlags int
    envEncoding,     \* os.Getenv("LOG_ENCODING")
    environ,         \* the environment the process was started in
    loggers,         \* the *logger objects created so far
    DefaultLogger,   \* var DefaultLogger Logger (an index into loggers)
    sinks,           \* what each io.Writer has received
    marshalErr,      \* whether json.Marshal returns an error in this run
    told,            \* the arguments of the latest package-level SetOutput, SetPrefix, SetLevel
    inflight,        \* the call a goroutine is in the middle of (RaceSpec)
    last             \* the last operation: its inputs and its effects, in order

vars == <<defaultPrefix, defaultOutput, defaultLevel, defaultFlags, envEncoding, environ,
          loggers, DefaultLogger, sinks, marshalErr, told, inflight, last>>

(***************************************************************************)
(* Bounds of the model.                                                    *)
(***************************************************************************)
MaxFields == 4      \* elements of the static and the call-site list of a run, together
LevelSlack == 1     \* how far outside LevelFatal..LevelTrace a threshold may be
MaxLines == 2       \* lines the sinks hold together in a run of several calls

(***************************************************************************)
(* Program constants.                                                      *)
(***************************************************************************)
LevelFatal == 0
LevelError == 1
LevelWarn == 2
LevelInfo == 3
LevelDebug == 4
LevelTrace == 5

FlagsNone == 0
FlagsDate == 1      \* log.Ldate
FlagsShortFile == 16 \* log.Lshortfile
FlagsDefault == 3   \* log.LstdFlags = Ldate | Ltime

PlainTextFormat == "text"
JsonFormat == "json"
DefaultFormat == ""

LevelName(rank) ==
    CASE rank = LevelFatal -> "FATAL"
      [] rank = LevelError -> "ERROR"
      [] rank = LevelWarn  -> "WARN"
      [] rank = LevelInfo  -> "INFO"
      [] rank = LevelDebug -> "DEBUG"
      [] rank = LevelTrace -> "TRACE"

(***************************************************************************)
(* interface{} values: a Go string or a Go int.  Two values are equal      *)
(* (Go's ==) only when both the dynamic type and the value agree.          *)
(***************************************************************************)
GoString(s) == [typ |-> "string", s |-> s, n |-> 0]
GoInt(n) == [typ |-> "int", s |-> "", n |-> n]

\* fmt.Sprintf("%v", v)
Sprintf(v) == IF v.typ = "int" THEN ToString(v.n) ELSE v.s

\* strings.Join(ss, sep)
RECURSIVE Join(_, _)
Join(ss, sep) ==
    IF Len(ss) = 0 THEN ""
    ELSE IF Len(ss) = 1 THEN ss[1]
    ELSE ss[1] \o sep \o Join(Tail(ss), sep)

\* m[k] = v on a map[string]string
Put(m, k, v) == [x \in (DOMAIN m) \cup {k} |-> IF x = k THEN v ELSE m[x]]

EmptyMap == [k \in {} |-> ""]

\* flattenKeyValues: every element's string form, joined by ", "
flattenKeyValues(keysAndValues) ==
    Join([i \in 1..Len(keysAndValues) |-> Sprintf(keysAndValues[i])], ", ")

(***************************************************************************)
(* SanitizeFormat and New.                                                 *)
(***************************************************************************)
\* (mutant) LOG_ENCODING returned whatever it holds
SanitizeFormatAnyEnv(format) ==
    IF format = PlainTextFormat \/ format = JsonFormat THEN format
    ELSE envEncoding

SanitizeFormat(format) ==
    IF format = PlainTextFormat \/ format = JsonFormat THEN format
    ELSE IF envEncoding = JsonFormat \/ envEncoding = PlainTextFormat THEN envEncoding
    ELSE PlainTextFormat

\* the loop of New that files the static list into staticArgs (i is 1-based)
RECURSIVE staticArgsLoop(_, _, _, _)
staticArgsLoop(staticArgs, staticKeysAndValues, i, currentKey) ==
    IF i > Len(staticKeysAndValues) THEN staticArgs
    ELSE IF i % 2 = 1
         THEN staticArgsLoop(staticArgs, staticKeysAndValues, i + 1,
                             Sprintf(staticKeysAndValues[i]))
         ELSE staticArgsLoop(Put(staticArgs, currentKey, Sprintf(staticKeysAndValues[i])),
                             staticKeysAndValues, i + 1, currentKey)

\* (mutant) the static dump filed under the key of the call-site dump
staticCorruptCheckSameKey(staticKeysAndValues) ==
    IF Len(staticKeysAndValues) % 2 = 1
    THEN <<GoString("corruptFields"), GoString(flattenKeyValues(staticKeysAndValues))>>
    ELSE staticKeysAndValues

\* the odd-length check of New
staticCorruptCheck(staticKeysAndValues) ==
    IF Len(staticKeysAndValues) % 2 = 1
    THEN <<GoString("corruptStaticFields"), GoString(flattenKeyValues(staticKeysAndValues))>>
    ELSE staticKeysAndValues

\* (mutant) a JSON logger given the field prefix also when defaultPrefix is empty
NewPrefixAlways(conf, staticKeysAndValues) ==
    LET format == SanitizeFormat(conf.Format)
        isJson == format = JsonFormat
        prefix == IF isJson THEN "" ELSE defaultPrefix
        flags  == IF isJson THEN 0 ELSE defaultFlags
        args0  == IF isJson THEN Put(EmptyMap, "prefix", defaultPrefix) ELSE EmptyMap
        args1  == IF conf.ID # "" THEN Put(args0, "golog_id", conf.ID) ELSE args0
    IN  [ level      |-> defaultLevel,
          formatLogEvent |-> format,
          staticArgs |-> staticArgsLoop(args1, staticCorruptCheck(staticKeysAndValues), 1, ""),
          prefix     |-> prefix,
          flags      |-> flags,
          l          |-> [out |-> defaultOutput, prefix |-> prefix, flags |-> flags],
          conf       |-> conf,
          given      |-> staticKeysAndValues ]

\* New(conf, staticKeysAndValues...): the logger it returns
New(conf, staticKeysAndValues) ==
    LET format == SanitizeFormat(conf.Format)
        isJson == format = JsonFormat
        prefix == IF isJson THEN "" ELSE defaultPrefix
        flags  == IF isJson THEN 0 ELSE defaultFlags
        args0  == IF isJson /\ defaultPrefix # ""
                  THEN Put(EmptyMap, "prefix", defaultPrefix) ELSE EmptyMap
        args1  == IF conf.ID # "" THEN Put(args0, "golog_id", conf.ID) ELSE args0
    IN  [ level      |-> defaultLevel,
          formatLogEvent |-> format,
          staticArgs |-> staticArgsLoop(args1, staticCorruptCheck(staticKeysAndValues), 1, ""),
          prefix     |-> prefix,
          flags      |-> flags,
          l          |-> [out |-> defaultOutput, prefix |-> prefix, flags |-> flags],
          conf       |-> conf,
          given      |-> staticKeysAndValues ]

NewDefault == New([Format |-> DefaultFormat, ID |-> ""], <<>>)

(***************************************************************************)
(* The plaintext renderer.  Positions are 1-based here: position i holds   *)
(* a key when i is odd (the code's i%2 == 0) and a value when i is even.   *)
(***************************************************************************)
NoDoc == [k \in {} |-> ""]

\* the inner loop of formatLogEventAsPlainText: key == arg, a comparison of
\* the string key with the interface{} value at a key position
existsInArgs(key, args) ==
    \E i \in 1..Len(args) : i % 2 = 1 /\ args[i] = GoString(key)

\* (mutant) every static field prepended, also one the call site names
RECURSIVE prependStaticAlways(_, _, _)
prependStaticAlways(staticFields, order, args) ==
    IF Len(order) = 0 THEN args
    ELSE prependStaticAlways(staticFields, Tail(order),
             <<GoString(Head(order)), GoString(staticFields[Head(order)])>> \o args)

\* the outer loop: the static fields, in the map's iteration order, are
\* prepended one by one unless the call-site list holds the key
RECURSIVE prependStatic(_, _, _)
prependStatic(staticFields, order, args) ==
    IF Len(order) = 0 THEN args
    ELSE LET key == Head(order)
         IN  prependStatic(staticFields, Tail(order),
                 IF existsInArgs(key, args) THEN args
                 ELSE <<GoString(key), GoString(staticFields[key])>> \o args)

\* the position of the first golog_id key that has a value after it, or 0
idPosition(args) ==
    LET hits == {i \in 1..Len(args) :
                    i % 2 = 1 /\ Sprintf(args[i]) = "golog_id" /\ i < Len(args)}
    IN  IF hits = {} THEN 0 ELSE CHOOSE i \in hits : \A j \in hits : i <= j

\* args = append(args[:i], args[i+2:]...)
removePair(args, p) ==
    IF p = 0 THEN args ELSE SubSeq(args, 1, p - 1) \o SubSeq(args, p + 2, Len(args))

\* expandKeyValuePairs: "k='v' foo='bar'", a dangling last element ignored
expandKeyValuePairs(keyValuePairs) ==
    Join([j \in 1..(Len(keyValuePairs) \div 2) |->
            Sprintf(keyValuePairs[2 * j - 1]) \o "='" \o Sprintf(keyValuePairs[2 * j]) \o "'"],
         " ")

\* (mutant) the channel segment emitted even when the id is empty
formatLogEventAsPlainTextEmptyId(flags, level, description, staticFields, order, args) ==
    LET items0 == (IF flags > FlagsNone THEN <<"">> ELSE <<>>) \o <<level>>
        merged == IF Len(args) + Cardinality(DOMAIN staticFields) > 0
                  THEN prependStatic(staticFields, order, args) ELSE args
        p      == idPosition(merged)
        id     == IF p = 0 THEN "" ELSE Sprintf(merged[p + 1])
        rest   == removePair(merged, p)
        items1 == (IF p # 0 THEN Append(items0, id) ELSE items0) \o <<description>>
        items  == IF Len(rest) > 0 THEN Append(items1, expandKeyValuePairs(rest)) ELSE items1
    IN  [ kind |-> "text", text |-> Join(items, " | "),
          items |-> items, id |-> id, args |-> rest, doc |-> NoDoc ]

\* formatLogEventAsPlainText; order is the iteration order of staticFields.
\* The result carries the string and the values it was built from.
formatLogEventAsPlainText(flags, level, description, staticFields, order, args) ==
    LET items0 == (IF flags > FlagsNone THEN <<"">> ELSE <<>>) \o <<level>>
        merged == IF Len(args) + Cardinality(DOMAIN staticFields) > 0
                  THEN prependStatic(staticFields, order, args) ELSE args
        p      == idPosition(merged)
        id     == IF p = 0 THEN "" ELSE Sprintf(merged[p + 1])
        rest   == removePair(merged, p)
        items1 == (IF id # "" THEN Append(items0, id) ELSE items0) \o <<description>>
        items  == IF Len(rest) > 0 THEN Append(items1, expandKeyValuePairs(rest)) ELSE items1
    IN  [ kind |-> "text", text |-> Join(items, " | "),
          items |-> items, id |-> id, args |-> rest, doc |-> NoDoc ]

(***************************************************************************)
(* The JSON renderer.                                                      *)
(***************************************************************************)
\* (mutant) a call-site pair does not replace a field that is already there
RECURSIVE extraFieldsLoopKeepsFirst(_, _, _, _)
extraFieldsLoopKeepsFirst(fields, extraFields, i, currentKey) ==
    IF i > Len(extraFields) THEN fields
    ELSE IF i % 2 = 1
         THEN extraFieldsLoopKeepsFirst(fields, extraFields, i + 1, Sprintf(extraFields[i]))
         ELSE extraFieldsLoopKeepsFirst(
                  IF currentKey \in DOMAIN fields THEN fields
                  ELSE Put(fields, currentKey, Sprintf(extraFields[i])),
                  extraFields, i + 1, currentKey)

\* the loop of formatLogEventAsJson that files the call-site list into Fields
RECURSIVE extraFieldsLoop(_, _, _, _)
extraFieldsLoop(fields, extraFields, i, currentKey) ==
    IF i > Len(extraFields) THEN fields
    ELSE IF i % 2 = 1
         THEN extraFieldsLoop(fields, extraFields, i + 1, Sprintf(extraFields[i]))
         ELSE extraFieldsLoop(Put(fields, currentKey, Sprintf(extraFields[i])),
                              extraFields, i + 1, currentKey)

\* (mutant) msg and fields written even when they are empty
jsonMarshalNoOmit(entry) ==
    [k \in {"ts", "lvl", "msg", "fields"} |->
        CASE k = "ts"     -> entry.Timestamp
          [] k = "lvl"    -> entry.Level
          [] k = "msg"    -> entry.Message
          [] k = "fields" -> entry.Fields]

\* json.Marshal(jsonLogEntry): msg and fields are omitempty
jsonMarshal(entry) ==
    LET keys == {"ts", "lvl"}
                \cup (IF entry.Message # "" THEN {"msg"} ELSE {})
                \cup (IF DOMAIN entry.Fields # {} THEN {"fields"} ELSE {})
    IN  [k \in keys |-> CASE k = "ts"     -> entry.Timestamp
                          [] k = "lvl"    -> entry.Level
                          [] k = "msg"    -> entry.Message
                          [] k = "fields" -> entry.Fields]

\* (mutant) a hand-built document returned when json.Marshal fails
formatLogEventAsJsonFallback(flags, level, msg, staticFields, order, extraFields) ==
    LET entry == [ Timestamp |-> "now", Level |-> level, Message |-> msg,
                   Fields |-> extraFieldsLoop(staticFields, extraFields, 1, "") ]
    IN  [ kind |-> "json", text |-> "",
          items |-> <<>>, id |-> "", args |-> <<>>,
          doc |-> IF marshalErr
                  THEN [k \in {"ts", "msg"} |->
                          IF k = "ts" THEN entry.Timestamp ELSE "failed to marshal log entry"]
                  ELSE jsonMarshal(entry) ]

\* formatLogEventAsJson; the copy of staticFields does not depend on the
\* iteration order.  The error of json.Marshal is dropped: when it fails,
\* encodedEntry is nil and the string returned is empty (no document).
formatLogEventAsJson(flags, level, msg, staticFields, order, extraFields) ==
    LET entry == [ Timestamp |-> "now", Level |-> level, Message |-> msg,
                   Fields |-> extraFieldsLoop(staticFields, extraFields, 1, "") ]
    IN  [ kind |-> "json", text |-> "",
          items |-> <<>>, id |-> "", args |-> <<>>,
          doc |-> IF marshalErr THEN NoDoc ELSE jsonMarshal(entry) ]

(***************************************************************************)
(* logMessage and the six severity methods.                                *)
(***************************************************************************)
\* (mutant) the dangling last element discarded instead of the list dumped
corruptCheckDropsDangling(keysAndValues) ==
    IF Len(keysAndValues) % 2 = 1
    THEN SubSeq(keysAndValues, 1, Len(keysAndValues) - 1)
    ELSE keysAndValues

\* (mutant) no odd-length check: the list handed on as it came
corruptCheckNone(keysAndValues) == keysAndValues

\* (mutant) the golog_id pair at the head of an odd list dumped with the rest
corruptCheckDumpsId(keysAndValues) ==
    IF Len(keysAndValues) % 2 = 1
    THEN << GoString("corruptFields"), GoString(flattenKeyValues(keysAndValues)) >>
    ELSE keysAndValues

\* the odd-length check of logMessage
corruptCheck(keysAndValues) ==
    IF Len(keysAndValues) % 2 = 1
    THEN IF Len(keysAndValues) >= 2 /\ keysAndValues[1] = GoString("golog_id")
         THEN << GoString("golog_id"), keysAndValues[2],
                 GoString("corruptFields"),
                 GoString(flattenKeyValues(SubSeq(keysAndValues, 3, Len(keysAndValues)))) >>
         ELSE << GoString("corruptFields"), GoString(flattenKeyValues(keysAndValues)) >>
    ELSE keysAndValues

\* the decoration log.Logger writes before the message, by its flags
\* (Ldate 1, Ltime 2, Lmicroseconds 4, Llongfile 8, Lshortfile 16)
Bit(flags, b) == (flags \div b) % 2 = 1
stamp(flags) ==
    (IF Bit(flags, 1) \/ Bit(flags, 2) \/ Bit(flags, 4) THEN "<time> " ELSE "")
    \o (IF Bit(flags, 8) \/ Bit(flags, 16) THEN "<file>: " ELSE "")

NoMsg == [ kind |-> "none", text |-> "", items |-> <<>>, id |-> "", args |-> <<>>,
           doc |-> NoDoc ]
NoLine == [ prefix |-> "", stamp |-> "", msg |-> NoMsg, nl |-> "" ]

\* what s.l.Println(msg) hands to the writer
Println(l, msg) == [ prefix |-> l.prefix, stamp |-> stamp(l.flags), msg |-> msg, nl |-> "\n" ]

\* logMessage: the line it has written
logMessage(s, level, description, keysAndValues, order) ==
    LET kvs == corruptCheck(keysAndValues)
        msg == IF s.formatLogEvent = JsonFormat
               THEN formatLogEventAsJson(s.flags, level, description, s.staticArgs, order, kvs)
               ELSE formatLogEventAsPlainText(s.flags, level, description, s.staticArgs, order, kvs)
    IN  Println(s.l, msg)

\* the effects of a call, in the order in which they happen
WriteEffect(w, line, ok) == [ev |-> "write", sink |-> w, line |-> line, ok |-> ok, code |-> 0]
osExit(code) == [ev |-> "osExit", sink |-> "", line |-> NoLine, ok |-> TRUE, code |-> code]

\* (mutant) the gate with the comparison off by one
gatedOutInclusive(s, rank) == s.level <= rank

\* the gate of the severity method of rank `rank`: if s.level < LevelX { return }
gatedOut(s, rank) == s.level < rank

\* (mutant) Fatal terminates before it looks at the threshold
severityMethodExitUngated(s, rank, description, keysAndValues, order, ok) ==
    (IF rank = LevelFatal THEN <<osExit(1)>> ELSE <<>>)
    \o (IF gatedOut(s, rank) THEN <<>>
        ELSE <<WriteEffect(s.l.out, logMessage(s, LevelName(rank), description, keysAndValues, order), ok)>>)

\* (mutant) Fatal terminates with the status of a clean exit
severityMethodExitZero(s, rank, description, keysAndValues, order, ok) ==
    IF gatedOut(s, rank) THEN <<>>
    ELSE <<WriteEffect(s.l.out, logMessage(s, LevelName(rank), description, keysAndValues, order), ok)>>
         \o (IF rank = LevelFatal THEN <<osExit(0)>> ELSE <<>>)

\* logger.Fatal / Error / Warn / Info / Debug / Trace: the effects of the call
severityMethod(s, rank, description, keysAndValues, order, ok) ==
    IF gatedOut(s, rank) THEN <<>>
    ELSE <<WriteEffect(s.l.out, logMessage(s, LevelName(rank), description, keysAndValues, order), ok)>>
         \o (IF rank = LevelFatal THEN <<osExit(1)>> ELSE <<>>)

\* append(args[:i], args[i+2:]...) seen through a slice that shares the
\* backing array and keeps its length: the elements after the pair at p move
\* two places down and the last two places keep what they held
removeInPlace(args, p) ==
    IF p = 0 THEN args
    ELSE [j \in 1..Len(args) |->
            IF j < p THEN args[j]
            ELSE IF j + 2 <= Len(args) THEN args[j + 2] ELSE args[j]]

\* the contents of the slice the caller spread into a severity method
\* (s.Error(description, kv...)), after the call.  The slice reaches the
\* formatter as it is unless logMessage replaces it (odd length); the
\* plaintext formatter works on a new array once it has prepended a static
\* field, and on the caller's array otherwise.
callerSlice(s, rank, keysAndValues, order) ==
    IF gatedOut(s, rank) \/ s.formatLogEvent = JsonFormat \/ Len(keysAndValues) % 2 = 1
    THEN keysAndValues
    ELSE LET merged == IF Len(keysAndValues) + Cardinality(DOMAIN s.staticArgs) > 0
                       THEN prependStatic(s.staticArgs, order, keysAndValues)
                       ELSE keysAndValues
         IN  IF Len(merged) = Len(keysAndValues)
             THEN removeInPlace(keysAndValues, idPosition(keysAndValues))
             ELSE keysAndValues

\* the package-level Fatal / Error / ...: golog_id and the id go first
packageArgs(id, keysAndValues) == <<GoString("golog_id"), GoString(id)>> \o keysAndValues

(***************************************************************************)
(* The environment and initLogging.                                        *)
(***************************************************************************)
\* the switch of initLogging on LOG_LEVEL
levelFromEnv(name) ==
    CASE name = "FATAL" -> LevelFatal
      [] name = "ERROR" -> LevelError
      [] name = "WARN"  -> LevelWarn
      [] name = "DEBUG" -> LevelDebug
      [] name = "TRACE" -> LevelTrace
      [] OTHER          -> LevelInfo

\* strconv.Atoi(LOG_FORMAT): the flags, FlagsDefault when it does not parse
flagsFromEnv(format) == IF format.parses THEN format.n ELSE FlagsDefault

\* no call in progress
NoCall == [ stage |-> "idle", lg |-> 0, rank |-> 0, description |-> "", kv |-> <<>>,
            args |-> <<>>, todo |-> <<>>, flags |-> 0,
            l |-> [out |-> "", prefix |-> "", flags |-> 0], races |-> {} ]

NoLast == [ op |-> "init", pkg |-> FALSE, lg |-> 0, rank |-> 0, description |-> "",
            id |-> "", kv |-> <<>>, args |-> <<>>, after |-> <<>>, effects |-> <<>> ]

Sinks == {"stdout", "w2"}

initLogging(env) ==
    /\ defaultPrefix = env.LOG_PREFIX
    /\ defaultOutput = "stdout"
    /\ defaultLevel = levelFromEnv(env.LOG_LEVEL)
    /\ defaultFlags = flagsFromEnv(env.LOG_FORMAT)
    /\ envEncoding = env.LOG_ENCODING
    /\ environ = env
    /\ loggers = <<NewDefault>>
    /\ DefaultLogger = 1

\* the process starts in one of the environments envs; errs: whether
\* json.Marshal may succeed (FALSE) or fail (TRUE) in the run
StartWith(envs, errs) ==
    /\ \E env \in envs : initLogging(env)
    /\ sinks = [w \in Sinks |-> <<>>]
    /\ marshalErr \in errs
    /\ told = [output |-> defaultOutput, prefix |-> defaultPrefix, level |-> defaultLevel]
    /\ inflight = NoCall
    /\ last = NoLast

\* json.Marshal cannot fail on a jsonLogEntry (strings and a map of strings)
Start(envs) == StartWith(envs, {FALSE})

(***************************************************************************)
(* The operations.                                                         *)
(***************************************************************************)
\* the orders in which a range over a map with these keys may visit them
RECURSIVE Orders(_)
Orders(keys) ==
    IF keys = {} THEN {<<>>}
    ELSE UNION {{<<k>> \o o : o \in Orders(keys \ {k})} : k \in keys}

\* (mutant) the writer keeps only the line it received last
RECURSIVE deliverOverwrites(_, _)
deliverOverwrites(ss, effects) ==
    IF Len(effects) = 0 THEN ss
    ELSE LET e == Head(effects)
         IN  deliverOverwrites(IF e.ev = "write" /\ e.ok
                               THEN [ss EXCEPT ![e.sink] = <<e.line>>] ELSE ss,
                               Tail(effects))

\* the writer receives the lines of the effects whose write succeeds
RECURSIVE deliver(_, _)
deliver(ss, effects) ==
    IF Len(effects) = 0 THEN ss
    ELSE LET e == Head(effects)
         IN  deliver(IF e.ev = "write" /\ e.ok
                     THEN [ss EXCEPT ![e.sink] = Append(@, e.line)] ELSE ss,
                     Tail(effects))

\* s.Fatal(...), s.Error(...), ..., s.Trace(...) on the logger at index i;
\* outcomes: whether the writer may accept (TRUE) or refuse (FALSE) the line
Severity(i, rank, description, keysAndValues, outcomes) ==
    /\ \E order \in Orders(DOMAIN loggers[i].staticArgs), ok \in outcomes :
         LET effects == severityMethod(loggers[i], rank, description, keysAndValues, order, ok)
         IN  /\ sinks' = deliver(sinks, effects)
             /\ last' = [ op |-> "log", pkg |-> FALSE, lg |-> i, rank |-> rank,
                          description |-> description, id |-> "", kv |-> keysAndValues,
                          args |-> keysAndValues,
                          after |-> callerSlice(loggers[i], rank, keysAndValues, order),
                          effects |-> effects ]
    /\ UNCHANGED <<defaultPrefix, defaultOutput, defaultLevel, defaultFlags, envEncoding, environ,
                   loggers, DefaultLogger, marshalErr, told, inflight>>

\* the package-level Fatal(id, ...), Error(id, ...), ..., Trace(id, ...)
PackageSeverity(rank, id, description, keysAndValues, outcomes) ==
    /\ \E order \in Orders(DOMAIN loggers[DefaultLogger].staticArgs), ok \in outcomes :
         LET effects == severityMethod(loggers[DefaultLogger], rank, description,
                                       packageArgs(id, keysAndValues), order, ok)
         IN  /\ sinks' = deliver(sinks, effects)
             /\ last' = [ op |-> "log", pkg |-> TRUE, lg |-> DefaultLogger, rank |-> rank,
                          description |-> description, id |-> id, kv |-> keysAndValues,
                          args |-> packageArgs(id, keysAndValues),
                          after |-> keysAndValues, effects |-> effects ]
    /\ UNCHANGED <<defaultPrefix, defaultOutput, defaultLevel, defaultFlags, envEncoding, environ,
                   loggers, DefaultLogger, marshalErr, told, inflight>>

\* (mutant) the new logger given the threshold the default logger has
NewLoggerLevelOfDefault(conf, staticKeysAndValues) ==
    /\ loggers' = Append(loggers, [New(conf, staticKeysAndValues) EXCEPT
                                       !.level = loggers[DefaultLogger].level])
    /\ last' = [NoLast EXCEPT !.op = "New", !.lg = Len(loggers) + 1]
    /\ UNCHANGED <<defaultPrefix, defaultOutput, defaultLevel, defaultFlags, envEncoding, environ,
                   DefaultLogger, sinks, marshalErr, told, inflight>>

\* lg := New(conf, staticKeysAndValues...)
NewLogger(conf, staticKeysAndValues) ==
    /\ loggers' = Append(loggers, New(conf, staticKeysAndValues))
    /\ last' = [NoLast EXCEPT !.op = "New", !.lg = Len(loggers) + 1]
    /\ UNCHANGED <<defaultPrefix, defaultOutput, defaultLevel, defaultFlags, envEncoding, environ,
                   DefaultLogger, sinks, marshalErr, told, inflight>>

\* the package-level SetLevel(level)
SetLevel(level) ==
    /\ defaultLevel' = level
    /\ loggers' = [loggers EXCEPT ![DefaultLogger].level = level]
    /\ told' = [told EXCEPT !.level = level]
    /\ last' = [NoLast EXCEPT !.op = "SetLevel", !.pkg = TRUE, !.lg = DefaultLogger,
                              !.kv = <<GoInt(level)>>]
    /\ UNCHANGED <<defaultPrefix, defaultOutput, defaultFlags, envEncoding, environ,
                   DefaultLogger, sinks, marshalErr, inflight>>

\* lg.SetLevel(level)
LoggerSetLevel(i, level) ==
    /\ loggers' = [loggers EXCEPT ![i].level = level]
    /\ last' = [NoLast EXCEPT !.op = "SetLevel", !.lg = i, !.kv = <<GoInt(level)>>]
    /\ UNCHANGED <<defaultPrefix, defaultOutput, defaultLevel, defaultFlags, envEncoding, environ,
                   DefaultLogger, sinks, marshalErr, told, inflight>>

\* (mutant) the writer of the default logger changed, defaultOutput left
SetOutputDefaultLoggerOnly(w) ==
    /\ loggers' = [loggers EXCEPT ![DefaultLogger].l =
                       [out |-> w, prefix |-> loggers[DefaultLogger].prefix,
                        flags |-> loggers[DefaultLogger].flags]]
    /\ told' = [told EXCEPT !.output = w]
    /\ last' = [NoLast EXCEPT !.op = "SetOutput", !.pkg = TRUE, !.lg = DefaultLogger,
                              !.kv = <<GoString(w)>>]
    /\ UNCHANGED <<defaultPrefix, defaultOutput, defaultLevel, defaultFlags, envEncoding, environ,
                   DefaultLogger, sinks, marshalErr, inflight>>

\* the package-level SetOutput(w)
SetOutput(w) ==
    /\ defaultOutput' = w
    /\ loggers' = [loggers EXCEPT ![DefaultLogger].l =
                       [out |-> w, prefix |-> loggers[DefaultLogger].prefix,
                        flags |-> loggers[DefaultLogger].flags]]
    /\ told' = [told EXCEPT !.output = w]
    /\ last' = [NoLast EXCEPT !.op = "SetOutput", !.pkg = TRUE, !.lg = DefaultLogger,
                              !.kv = <<GoString(w)>>]
    /\ UNCHANGED <<defaultPrefix, defaultLevel, defaultFlags, envEncoding, environ,
                   DefaultLogger, sinks, marshalErr, inflight>>

\* (mutant) the new log.Logger built without the prefix and the flags
LoggerSetOutputBare(i, w) ==
    /\ loggers' = [loggers EXCEPT ![i].l = [out |-> w, prefix |-> "", flags |-> 0]]
    /\ last' = [NoLast EXCEPT !.op = "SetOutput", !.lg = i, !.kv = <<GoString(w)>>]
    /\ UNCHANGED <<defaultPrefix, defaultOutput, defaultLevel, defaultFlags, envEncoding, environ,
                   DefaultLogger, sinks, marshalErr, told, inflight>>

\* lg.SetOutput(w): s.l = log.New(w, s.prefix, s.flags)
LoggerSetOutput(i, w) ==
    /\ loggers' = [loggers EXCEPT ![i].l =
                       [out |-> w, prefix |-> loggers[i].prefix, flags |-> loggers[i].flags]]
    /\ last' = [NoLast EXCEPT !.op = "SetOutput", !.lg = i, !.kv = <<GoString(w)>>]
    /\ UNCHANGED <<defaultPrefix, defaultOutput, defaultLevel, defaultFlags, envEncoding, environ,
                   DefaultLogger, sinks, marshalErr, told, inflight>>

\* the package-level SetTimestampFlags(flags)
SetTimestampFlags(flags) ==
    /\ defaultFlags' = flags
    /\ loggers' = [loggers EXCEPT ![DefaultLogger].flags = flags,
                                  ![DefaultLogger].l.flags = flags]
    /\ last' = [NoLast EXCEPT !.op = "SetTimestampFlags", !.pkg = TRUE, !.lg = DefaultLogger,
                              !.kv = <<GoInt(flags)>>]
    /\ UNCHANGED <<defaultPrefix, defaultOutput, defaultLevel, envEncoding, environ,
                   DefaultLogger, sinks, marshalErr, told, inflight>>

\* (mutant) the flags of the log.Logger set, the logger's own copy left
LoggerSetTimestampFlagsWriterOnly(i, flags) ==
    /\ loggers' = [loggers EXCEPT ![i].l.flags = flags]
    /\ last' = [NoLast EXCEPT !.op = "SetTimestampFlags", !.lg = i, !.kv = <<GoInt(flags)>>]
    /\ UNCHANGED <<defaultPrefix, defaultOutput, defaultLevel, defaultFlags, envEncoding, environ,
                   DefaultLogger, sinks, marshalErr, told, inflight>>

\* lg.SetTimestampFlags(flags): s.flags = flags; s.l.SetFlags(flags)
LoggerSetTimestampFlags(i, flags) ==
    /\ loggers' = [loggers EXCEPT ![i].flags = flags, ![i].l.flags = flags]
    /\ last' = [NoLast EXCEPT !.op = "SetTimestampFlags", !.lg = i, !.kv = <<GoInt(flags)>>]
    /\ UNCHANGED <<defaultPrefix, defaultOutput, defaultLevel, defaultFlags, envEncoding, environ,
                   DefaultLogger, sinks, marshalErr, told, inflight>>

\* (mutant) a name that is already set keeps its value
LoggerSetStaticFieldKeepsFirst(i, name, value) ==
    /\ loggers' = [loggers EXCEPT ![i].staticArgs =
                       IF name \in DOMAIN @ THEN @ ELSE Put(@, name, Sprintf(value))]
    /\ last' = [NoLast EXCEPT !.op = "SetStaticField", !.lg = i,
                              !.kv = <<GoString(name), value>>]
    /\ UNCHANGED <<defaultPrefix, defaultOutput, defaultLevel, defaultFlags, envEncoding, environ,
                   DefaultLogger, sinks, marshalErr, told, inflight>>

\* lg.SetStaticField(name, value): s.staticArgs[name] = fmt.Sprintf("%v", value)
LoggerSetStaticField(i, name, value) ==
    /\ loggers' = [loggers EXCEPT ![i].staticArgs = Put(@, name, Sprintf(value))]
    /\ last' = [NoLast EXCEPT !.op = "SetStaticField", !.lg = i,
                              !.kv = <<GoString(name), value>>]
    /\ UNCHANGED <<defaultPrefix, defaultOutput, defaultLevel, defaultFlags, envEncoding, environ,
                   DefaultLogger, sinks, marshalErr, told, inflight>>

\* (mutant) the new default logger given the threshold of the one it replaces
SetPrefixKeepsLevel(prefix) ==
    /\ defaultPrefix' = prefix
    /\ UNCHANGED <<defaultOutput, defaultLevel, defaultFlags, envEncoding, environ,
                   DefaultLogger, sinks, marshalErr, inflight>>
    /\ loggers' = [loggers EXCEPT ![DefaultLogger] =
                       [NewDefault' EXCEPT !.level = loggers[DefaultLogger].level]]
    /\ told' = [told EXCEPT !.prefix = prefix]
    /\ last' = [NoLast EXCEPT !.op = "SetPrefix", !.pkg = TRUE, !.lg = DefaultLogger,
                              !.kv = <<GoString(prefix)>>]

\* (mutant) the default logger not created anew
SetPrefixKeepsLogger(prefix) ==
    /\ defaultPrefix' = prefix
    /\ told' = [told EXCEPT !.prefix = prefix]
    /\ last' = [NoLast EXCEPT !.op = "SetPrefix", !.pkg = TRUE, !.lg = DefaultLogger,
                              !.kv = <<GoString(prefix)>>]
    /\ UNCHANGED <<defaultOutput, defaultLevel, defaultFlags, envEncoding, environ,
                   loggers, DefaultLogger, sinks, marshalErr, inflight>>

\* SetPrefix(prefix): defaultPrefix = prefix; DefaultLogger = NewDefault().
\* The logger DefaultLogger pointed at before is garbage unless the caller
\* kept it; loggers holds the loggers that can still be used.
SetPrefix(prefix) ==
    /\ defaultPrefix' = prefix
    /\ UNCHANGED <<defaultOutput, defaultLevel, defaultFlags, envEncoding, environ,
                   DefaultLogger, sinks, marshalErr, inflight>>
    /\ loggers' = [loggers EXCEPT ![DefaultLogger] = NewDefault']
    /\ told' = [told EXCEPT !.prefix = prefix]
    /\ last' = [NoLast EXCEPT !.op = "SetPrefix", !.pkg = TRUE, !.lg = DefaultLogger,
                              !.kv = <<GoString(prefix)>>]

(***************************************************************************)
(* The inputs of the operations.                                           *)
(***************************************************************************)
Elems == {GoString("golog_id"), GoString("a"), GoInt(1)}

SeqsUpTo(S, n) == UNION {[1..k -> S] : k \in 0..n}

Ranks == LevelFatal..LevelTrace
Thresholds == (LevelFatal - LevelSlack)..(LevelTrace + LevelSlack)
Ids == {"", "id"}
Descriptions == {"msg", ""}

\* no severity method or function has been called yet
NoCallYet == last.op # "log"

(***************************************************************************)
(* Spec: thresholds and severities.  The threshold of the default logger   *)
(* and of one more logger is set to any value, and then one call of any      *)
(* severity is made, to a writer that may accept or refuse the line.       *)
(***************************************************************************)
GateEnvironments ==
    [ LOG_PREFIX   : {""},
      LOG_LEVEL    : {"", "TRACE"},
      LOG_FORMAT   : {[parses |-> TRUE, n |-> 0]},
      LOG_ENCODING : {""} ]

GateLists == {<<>>, <<GoString("a"), GoInt(1)>>}
GateConfigs == [Format : {DefaultFormat}, ID : {""}]

Init == Start(GateEnvironments)

CallSeverity ==
    /\ NoCallYet
    /\ \E i \in 1..Len(loggers), rank \in Ranks, kv \in GateLists :
          Severity(i, rank, "msg", kv, BOOLEAN)

CallPackageSeverity ==
    /\ NoCallYet
    /\ \E rank \in Ranks, id \in Ids, kv \in GateLists :
          PackageSeverity(rank, id, "msg", kv, BOOLEAN)

CallNew ==
    /\ Len(loggers) = 1
    /\ NoCallYet
    /\ \E conf \in GateConfigs : NewLogger(conf, <<>>)

CallSetLevel ==
    /\ NoCallYet
    /\ \E level \in Thresholds : SetLevel(level)

CallLoggerSetLevel ==
    /\ NoCallYet
    /\ \E i \in 1..Len(loggers), level \in Thresholds : LoggerSetLevel(i, level)

Next ==
    \/ CallSeverity
    \/ CallPackageSeverity
    \/ CallNew
    \/ CallSetLevel
    \/ CallLoggerSetLevel

Spec == Init /\ [][Next]_vars

(***************************************************************************)
(* RenderSpec: rendering.  One logger is constructed from any              *)
(* configuration and static list, and one call is rendered, on it or on    *)
(* the default logger, with any call-site list; the two lists hold at most *)
(* MaxFields elements together.                                            *)
(***************************************************************************)
RenderEnvironments ==
    [ LOG_PREFIX   : {"", "pre "},
      LOG_LEVEL    : {""},
      LOG_FORMAT   : {[parses |-> FALSE, n |-> 0], [parses |-> TRUE, n |-> 0]},
      LOG_ENCODING : {"", "json"} ]

RenderConfigs == [Format : {DefaultFormat, PlainTextFormat, JsonFormat}, ID : {"", "id"}]
RenderRanks == {LevelFatal, LevelError, LevelDebug}

RenderInit == Start(RenderEnvironments)

\* the elements of the static lists given to New so far
RECURSIVE StaticGiven(_)
StaticGiven(n) == IF n = 0 THEN 0 ELSE Len(loggers[n].given) + StaticGiven(n - 1)

RenderNew ==
    /\ Len(loggers) = 1
    /\ NoCallYet
    /\ \E conf \in RenderConfigs, kv \in SeqsUpTo(Elems, MaxFields) : NewLogger(conf, kv)

RenderSeverity ==
    /\ NoCallYet
    /\ \E i \in 1..Len(loggers), rank \in RenderRanks, description \in Descriptions :
       \E kv \in SeqsUpTo(Elems, MaxFields - StaticGiven(Len(loggers))) :
          Severity(i, rank, description, kv, {TRUE})

RenderPackageSeverity ==
    /\ NoCallYet
    /\ Len(loggers) = 1
    /\ \E rank \in Ranks, id \in Ids, kv \in SeqsUpTo(Elems, MaxFields - 2) :
          PackageSeverity(rank, id, "msg", kv, {TRUE})

RenderNext ==
    \/ RenderNew
    \/ RenderSeverity
    \/ RenderPackageSeverity

RenderSpec == RenderInit /\ [][RenderNext]_vars

(***************************************************************************)
(* Properties.                                                             *)
(***************************************************************************)
\* the write calls among the effects of the last operation
WritesOf(effects) == {k \in 1..Len(effects) : effects[k].ev = "write"}
ExitsOf(effects) == {k \in 1..Len(effects) : effects[k].ev = "osExit"}
AllSinksEmpty == \A w \in Sinks : sinks[w] = <<>>

\* C1: for every logger and every threshold T it has (values outside 0..5
\* included), a call of the severity method of rank R hands a line to the
\* logger's sink if and only if R <= T, and exactly one line; a call with
\* R > T writes nothing and every sink stays empty.
C1_MonotonicGating ==
    last.op = "log" =>
        LET s == loggers[last.lg]
            w == WritesOf(last.effects)
        IN  /\ (w # {}) <=> (last.rank <= s.level)
            /\ Cardinality(w) <= 1
            /\ \A k \in w : last.effects[k].sink = s.l.out
            /\ \A k \in w : last.effects[k].line.msg.kind # "none"
            /\ (last.rank > s.level) => AllSinksEmpty
            /\ (\A k \in w : last.effects[k].ok)
                  => sinks[s.l.out] = [k \in 1..Cardinality(w) |-> last.effects[1].line]

\* C1 witness: a threshold above LevelTrace lets a Trace call through
C1_Witness ==
    /\ last.op = "log"
    /\ last.rank = LevelTrace
    /\ loggers[last.lg].level > LevelTrace
    /\ Len(sinks[loggers[last.lg].l.out]) = 1

\* C2: a Fatal call on a logger whose threshold is below LevelFatal, made
\* through logger.Fatal or through the package-level Fatal, writes nothing
\* and does not invoke osExit.
C2_GatedFatalIsSilent ==
    (last.op = "log" /\ last.rank = LevelFatal /\ loggers[last.lg].level < LevelFatal) =>
        /\ last.effects = <<>>
        /\ AllSinksEmpty

\* C2 witness: the package-level Fatal on a default logger set to -1
C2_Witness ==
    /\ last.op = "log"
    /\ last.pkg
    /\ last.lg = DefaultLogger
    /\ last.rank = LevelFatal
    /\ loggers[last.lg].level = LevelFatal - 1

\* C2 witness of the method form: logger.Fatal on a constructed logger
C2_WitnessMethod ==
    /\ last.op = "log"
    /\ ~last.pkg
    /\ last.lg # DefaultLogger
    /\ last.rank = LevelFatal
    /\ loggers[last.lg].level < LevelFatal

\* C3 as stated: a Fatal call that is let through writes its line, then
\* invokes osExit once with code 1, and only after a write that succeeded.
C3_ExitOnlyAfterSuccessfulWrite ==
    (last.op = "log" /\ last.rank = LevelFatal /\ loggers[last.lg].level >= LevelFatal) =>
        /\ Len(last.effects) = 2
        /\ last.effects[1].ev = "write"
        /\ last.effects[1].ok
        /\ last.effects[2] = osExit(1)

\* C3 as amended: a Fatal call that is let through hands its line to the
\* logger's sink first and then invokes osExit, exactly once and with code 1,
\* whether or not the writer accepted the line; no other severity method and
\* no gated call invokes osExit.
C3_WriteThenExit ==
    last.op = "log" =>
        IF last.rank = LevelFatal /\ loggers[last.lg].level >= LevelFatal
        THEN /\ Len(last.effects) = 2
             /\ last.effects[1].ev = "write"
             /\ last.effects[1].sink = loggers[last.lg].l.out
             /\ last.effects[1].line.msg.kind # "none"
             /\ last.effects[2] = osExit(1)
        ELSE ExitsOf(last.effects) = {}

\* C3 witness: a Fatal call whose line the writer refused, osExit invoked
C3_Witness ==
    /\ last.op = "log"
    /\ last.rank = LevelFatal
    /\ Len(last.effects) = 2
    /\ ~last.effects[1].ok
    /\ last.effects[2].ev = "osExit"
    /\ AllSinksEmpty

(***************************************************************************)
(* Rendering properties (RenderSpec).                                      *)
(***************************************************************************)
\* the last operation was a call that was let through
Rendered == last.op = "log" /\ Len(last.effects) > 0
\* what it rendered, and the logger that rendered it
Msg == last.effects[1].line.msg
Static == loggers[last.lg].staticArgs
\* the key='value' entries of a plaintext line, in order
Entries(msg) ==
    [j \in 1..(Len(msg.args) \div 2) |->
        [key |-> Sprintf(msg.args[2 * j - 1]), value |-> Sprintf(msg.args[2 * j])]]
EntriesNamed(msg, name) == {j \in DOMAIN Entries(msg) : Entries(msg)[j].key = name}
\* the fields object of a JSON document (none when omitted)
FieldsOf(msg) == IF "fields" \in DOMAIN msg.doc THEN msg.doc["fields"] ELSE EmptyMap
\* the string forms of a list's elements, joined by ", "
RECURSIVE Dump(_)
Dump(list) ==
    IF Len(list) = 0 THEN ""
    ELSE Sprintf(list[1]) \o (IF Len(list) > 1 THEN ", " \o Dump(Tail(list)) ELSE "")
\* an odd call-site list that opens with the string golog_id and its value
LeadsWithId(list) ==
    Len(list) % 2 = 1 /\ Len(list) >= 3 /\ list[1] = GoString("golog_id")
StaticId == IF "golog_id" \in DOMAIN Static THEN Static["golog_id"] ELSE ""

\* a rendered event whose call-site part is the one field corruptFields =
\* dump, over the static fields, with channel id `id`
OnlyCorruptFields(msg, dump, id, idKeys) ==
    IF msg.kind = "text"
    THEN /\ Cardinality(EntriesNamed(msg, "corruptFields")) = 1
         /\ \A j \in DOMAIN Entries(msg) :
               LET e == Entries(msg)[j]
               IN  IF e.key = "corruptFields" THEN e.value = dump
                   ELSE e.key \in DOMAIN Static /\ e.value = Static[e.key]
         /\ EntriesNamed(msg, "golog_id") = {}
         /\ msg.id = id
    ELSE /\ DOMAIN FieldsOf(msg) = DOMAIN Static \cup {"corruptFields"} \cup idKeys
         /\ FieldsOf(msg)["corruptFields"] = dump
         /\ \A k \in idKeys : FieldsOf(msg)[k] = id
         /\ \A k \in DOMAIN Static \ ({"corruptFields"} \cup idKeys) :
               FieldsOf(msg)[k] = Static[k]

\* C4 as stated: an odd-length call-site list given to a severity method is
\* rendered, in plaintext and in JSON, as the one call-site field
\* corruptFields holding every element of the list joined by ", "; no
\* element of the list is a key or a value of its own.
C4_WholeListDumped ==
    (Rendered /\ ~last.pkg /\ Len(last.kv) % 2 = 1) =>
        OnlyCorruptFields(Msg, Dump(last.kv), StaticId, {})

\* C4 as amended: the same, unless the odd list opens with the string
\* golog_id and has at least three elements; then its first two elements
\* stay the golog_id pair (the channel id in plaintext, the field golog_id
\* in JSON) and corruptFields holds the remaining elements joined by ", ".
C4_OddListDumped ==
    (Rendered /\ ~last.pkg /\ Len(last.kv) % 2 = 1) =>
        IF LeadsWithId(last.kv)
        THEN OnlyCorruptFields(Msg, Dump(SubSeq(last.kv, 3, Len(last.kv))),
                               Sprintf(last.kv[2]), {"golog_id"})
        ELSE OnlyCorruptFields(Msg, Dump(last.kv), StaticId, {})

\* C4 witness: a three-element list that does not open with golog_id,
\* rendered in plaintext over a static field
C4_Witness ==
    /\ Rendered /\ ~last.pkg
    /\ Len(last.kv) = 3 /\ ~LeadsWithId(last.kv)
    /\ Msg.kind = "text"
    /\ DOMAIN Static # {}
    /\ Len(sinks["stdout"]) = 1

\* C4 witness of the amended case: an odd list that opens with golog_id
C4_WitnessLead ==
    /\ Rendered /\ ~last.pkg
    /\ LeadsWithId(last.kv)
    /\ Msg.kind = "json"

\* the loggers New was given an odd-length static list for
OddStatic(i) == Len(loggers[i].given) % 2 = 1
\* the fields a constructed logger has besides those of its static list
BaseKeys(i) ==
    (IF loggers[i].conf.ID # "" THEN {"golog_id"} ELSE {})
    \cup (IF loggers[i].formatLogEvent = JsonFormat /\ defaultPrefix # "" THEN {"prefix"} ELSE {})

\* the static fields of a logger built from an odd list: the whole list as
\* the one field corruptStaticFields
StaticListDumped(i) ==
    LET sa == loggers[i].staticArgs
    IN  /\ DOMAIN sa = {"corruptStaticFields"} \cup BaseKeys(i)
        /\ sa["corruptStaticFields"] = Dump(loggers[i].given)
        /\ "golog_id" \in BaseKeys(i) => sa["golog_id"] = loggers[i].conf.ID
        /\ "prefix" \in BaseKeys(i) => sa["prefix"] = defaultPrefix

\* an event that renders corruptStaticFields = sdump and corruptFields = dump
\* and, of the two lists, nothing else; id is the channel id
BothDumps(msg, i, sdump, dump, id, idKeys) ==
    IF msg.kind = "text"
    THEN /\ Len(Entries(msg)) = 2
         /\ \E j \in 1..2 : Entries(msg)[j] = [key |-> "corruptStaticFields", value |-> sdump]
         /\ \E j \in 1..2 : Entries(msg)[j] = [key |-> "corruptFields", value |-> dump]
         /\ msg.id = id
    ELSE /\ DOMAIN FieldsOf(msg) =
                {"corruptStaticFields", "corruptFields"} \cup BaseKeys(i) \cup idKeys
         /\ FieldsOf(msg)["corruptStaticFields"] = sdump
         /\ FieldsOf(msg)["corruptFields"] = dump
         /\ "golog_id" \in DOMAIN FieldsOf(msg) => FieldsOf(msg)["golog_id"] = id
         /\ "prefix" \in DOMAIN FieldsOf(msg) => FieldsOf(msg)["prefix"] = defaultPrefix

\* C5 as stated: New with an odd-length static list keeps the whole list as
\* the one static field corruptStaticFields; a later call with an odd-length
\* call-site list renders corruptStaticFields and corruptFields, each the
\* dump of its whole list, and no other field that comes from either list.
C5_BothWholeListsDumped ==
    /\ \A i \in 1..Len(loggers) : OddStatic(i) => StaticListDumped(i)
    /\ (Rendered /\ ~last.pkg /\ OddStatic(last.lg) /\ Len(last.kv) % 2 = 1) =>
          BothDumps(Msg, last.lg, Dump(loggers[last.lg].given), Dump(last.kv),
                    loggers[last.lg].conf.ID, {})

\* C5 as amended: the same, except that a call-site list that opens with the
\* string golog_id and has at least three elements keeps its first two
\* elements as the golog_id pair of the event, and corruptFields is the dump
\* of the remaining elements.
C5_BothListsDumped ==
    /\ \A i \in 1..Len(loggers) : OddStatic(i) => StaticListDumped(i)
    /\ (Rendered /\ ~last.pkg /\ OddStatic(last.lg) /\ Len(last.kv) % 2 = 1) =>
          IF LeadsWithId(last.kv)
          THEN BothDumps(Msg, last.lg, Dump(loggers[last.lg].given),
                         Dump(SubSeq(last.kv, 3, Len(last.kv))), Sprintf(last.kv[2]),
                         {"golog_id"})
          ELSE BothDumps(Msg, last.lg, Dump(loggers[last.lg].given), Dump(last.kv),
                         loggers[last.lg].conf.ID, {})

\* C5 witness: a logger built from a three-element static list renders a
\* call with a one-element call-site list
C5_Witness ==
    /\ Rendered /\ ~last.pkg
    /\ Len(loggers[last.lg].given) = 3
    /\ Len(last.kv) = 1
    /\ "corruptStaticFields" \in DOMAIN FieldsOf(Msg)
    /\ "corruptFields" \in DOMAIN FieldsOf(Msg)

\* the key positions of a key/value list, and the last one with a given name
KeyPositions(list) == {i \in 1..Len(list) : i % 2 = 1 /\ i < Len(list)}
KeysOf(list) == {Sprintf(list[i]) : i \in KeyPositions(list)}
LastValue(list, name) ==
    LET at == {i \in KeyPositions(list) : Sprintf(list[i]) = name}
        i  == CHOOSE x \in at : \A y \in at : y <= x
    IN  Sprintf(list[i + 1])

\* C6: in JSON mode, for every static field set and every even-length list
\* handed to the severity method, the keys of the fields object are the
\* static keys together with the string forms of the call-site keys; a key
\* of the call site carries its call-site value and a key that is only
\* static carries its static value.
C6_JsonMerge ==
    (Rendered /\ Msg.kind = "json" /\ Len(last.args) % 2 = 0) =>
        LET f == FieldsOf(Msg)
        IN  /\ DOMAIN f = DOMAIN Static \cup KeysOf(last.args)
            /\ \A k \in KeysOf(last.args) : f[k] = LastValue(last.args, k)
            /\ \A k \in DOMAIN Static \ KeysOf(last.args) : f[k] = Static[k]

\* C6 witness: a JSON logger with the static field "1" renders a call whose
\* key is the integer 1, and the call-site value replaces the static one
C6_Witness ==
    /\ Rendered /\ Msg.kind = "json" /\ ~last.pkg
    /\ Len(last.args) = 2
    /\ last.args[1] = GoInt(1)
    /\ "1" \in DOMAIN Static
    /\ Static["1"] # Sprintf(last.args[2])
    /\ FieldsOf(Msg)["1"] = Sprintf(last.args[2])
    /\ Cardinality(DOMAIN Static) > 1

\* C7: in plaintext mode, a call-site key with the name (string form) of a
\* static field is rendered exactly once, with the call-site value; the
\* static value of that key is not rendered.  (Stated for even-length lists
\* whose key names are pairwise distinct, and for keys other than golog_id.)
C7_PlainTextOverride ==
    (Rendered /\ Msg.kind = "text" /\ Len(last.args) % 2 = 0
       /\ \A i, j \in KeyPositions(last.args) :
             Sprintf(last.args[i]) = Sprintf(last.args[j]) => i = j) =>
        \A i \in KeyPositions(last.args) :
            LET name == Sprintf(last.args[i])
            IN  (name \in DOMAIN Static /\ name # "golog_id") =>
                   /\ Cardinality(EntriesNamed(Msg, name)) = 1
                   /\ \A j \in EntriesNamed(Msg, name) :
                         Entries(Msg)[j].value = Sprintf(last.args[i + 1])

\* C8: in every rendered event, plaintext or JSON, no field key occurs more
\* than once; of a key supplied more than once, only the value written last
\* is rendered.
C8_NoDuplicateKeys ==
    Rendered =>
        /\ Msg.kind = "text" =>
              \A i, j \in DOMAIN Entries(Msg) :
                  Entries(Msg)[i].key = Entries(Msg)[j].key => i = j
        /\ (Msg.kind = "json" /\ Len(last.args) % 2 = 0) =>
              \A k \in KeysOf(last.args) : FieldsOf(Msg)[k] = LastValue(last.args, k)

\* the key golog_id is among the merged fields of the last call
IdSupplied ==
    \/ "golog_id" \in DOMAIN Static
    \/ "golog_id" \in KeysOf(corruptCheck(last.args))

\* C9: in plaintext mode, when golog_id is among the merged fields its value
\* is rendered as the channel segment only, and the trailing field list has
\* no golog_id entry; when it is absent there is no channel segment.
C9_IdOnlyAsChannel ==
    (Rendered /\ Msg.kind = "text") =>
        /\ EntriesNamed(Msg, "golog_id") = {}
        /\ ~IdSupplied => Msg.id = ""

\* the text a plaintext line puts on the sink
LineText(line) == line.prefix \o line.stamp \o line.msg.text \o line.nl

\* "k1='v1' ... kn='vn'" of an even-length list
RECURSIVE Pairs(_)
Pairs(list) ==
    IF Len(list) < 2 THEN ""
    ELSE Sprintf(list[1]) \o "='" \o Sprintf(list[2]) \o "'"
         \o (IF Len(list) > 2 THEN " " \o Pairs(SubSeq(list, 3, Len(list))) ELSE "")

PairEntries(list) ==
    [j \in 1..(Len(list) \div 2) |->
        [key |-> Sprintf(list[2 * j - 1]), value |-> Sprintf(list[2 * j])]]
NotTheId(e) == e.key # "golog_id"
\* the static fields that no key of the list overrides, the channel id aside
StaticOnly(list) == (DOMAIN Static \ KeysOf(list)) \ {"golog_id"}
\* the last segment of a plaintext line
LastItem(msg) == msg.items[Len(msg.items)]

\* C11: in plaintext mode the trailing segment is the static fields that no
\* call-site key overrides (in any order) followed by the call-site fields in
\* the order of the call site, each as key='value' and separated by single
\* spaces, the channel id aside; the segment is there if and only if these
\* fields are not none.  (The call-site fields of an odd-length list are
\* those logMessage makes of it.)
C11_TrailingSegment ==
    (Rendered /\ Msg.kind = "text") =>
        LET kvs  == corruptCheck(last.args)
            call == SelectSeq(PairEntries(kvs), NotTheId)
            only == StaticOnly(kvs)
            n    == Cardinality(only)
            ents == Entries(Msg)
        IN  /\ Len(ents) = n + Len(call)
            /\ {ents[j].key : j \in 1..n} = only
            /\ \A j \in 1..n : ents[j].value = Static[ents[j].key]
            /\ \A j \in 1..Len(call) : ents[n + j] = call[j]
            /\ Len(ents) > 0 => LastItem(Msg) = Pairs(Msg.args)
            /\ Len(ents) = 0 => LastItem(Msg) = last.description

\* C11 restricted to call-site lists whose keys are strings, with no key
\* given twice
C11_TrailingSegmentPlainKeys ==
    (\A i \in KeyPositions(corruptCheck(last.args)) :
        /\ corruptCheck(last.args)[i].typ = "string"
        /\ \A j \in KeyPositions(corruptCheck(last.args)) :
              corruptCheck(last.args)[i] = corruptCheck(last.args)[j] => i = j)
    => C11_TrailingSegment

\* C12: every document a JSON-mode logger writes has ts and lvl, lvl being
\* the name of the severity method called; it has msg if and only if the
\* message is not empty, and fields if and only if the static fields and the
\* call-site fields together are not none; it has no other key.
C12_JsonDocument ==
    (Rendered /\ loggers[last.lg].formatLogEvent = JsonFormat) =>
        LET doc    == Msg.doc
            merged == DOMAIN Static \cup KeysOf(corruptCheck(last.args))
        IN  /\ Msg.kind = "json"
            /\ {"ts", "lvl"} \subseteq DOMAIN doc
            /\ DOMAIN doc \subseteq {"ts", "lvl", "msg", "fields"}
            /\ doc["lvl"] = LevelName(last.rank)
            /\ ("msg" \in DOMAIN doc) <=> (last.description # "")
            /\ ("msg" \in DOMAIN doc) => doc["msg"] = last.description
            /\ ("fields" \in DOMAIN doc) <=> (merged # {})
            /\ ("fields" \in DOMAIN doc) => DOMAIN doc["fields"] = merged
            /\ sinks[loggers[last.lg].l.out] = <<last.effects[1].line>>

\* C12 witness: a JSON logger without static fields has written the document
\* of a call with an empty message and no call-site fields
C12_Witness ==
    /\ Rendered /\ ~last.pkg
    /\ loggers[last.lg].formatLogEvent = JsonFormat
    /\ last.description = "" /\ last.kv = <<>> /\ DOMAIN Static = {}
    /\ DOMAIN Msg.doc = {"ts", "lvl"}
    /\ Len(sinks["stdout"]) = 1

\* C13: a JSON document carries the channel id only when the id is not the
\* empty string: with an empty id it has no top-level name and no golog_id
\* entry in fields.
C13_JsonNoEmptyId ==
    (Rendered /\ Msg.kind = "json") =>
        /\ "name" \notin DOMAIN Msg.doc
        /\ "golog_id" \in DOMAIN FieldsOf(Msg) => FieldsOf(Msg)["golog_id"] # ""

(***************************************************************************)
(* MarshalSpec: the serialization primitive under failure.  json.Marshal   *)
(* returns ([]byte, error); on a jsonLogEntry it has no way to fail, so    *)
(* the failure is injected here: the runs in which marshalErr holds are    *)
(* those the error branch of formatLogEventAsJson would see.               *)
(***************************************************************************)
MarshalEnvironments ==
    [ LOG_PREFIX   : {""},
      LOG_LEVEL    : {""},
      LOG_FORMAT   : {[parses |-> FALSE, n |-> 0]},
      LOG_ENCODING : {"", "json"} ]

MarshalConfigs == [Format : {DefaultFormat, JsonFormat}, ID : {"", "id"}]
MarshalLists == SeqsUpTo(Elems, MaxFields - 2)

MarshalInit == StartWith(MarshalEnvironments, BOOLEAN)

MarshalNew ==
    /\ Len(loggers) = 1
    /\ NoCallYet
    /\ \E conf \in MarshalConfigs, kv \in MarshalLists : NewLogger(conf, kv)

MarshalSeverity ==
    /\ NoCallYet
    /\ \E i \in 1..Len(loggers), rank \in Ranks, description \in Descriptions :
       \E kv \in MarshalLists : Severity(i, rank, description, kv, BOOLEAN)

MarshalPackageSeverity ==
    /\ NoCallYet
    /\ \E rank \in Ranks, id \in Ids, kv \in MarshalLists :
          PackageSeverity(rank, id, "msg", kv, BOOLEAN)

MarshalNext ==
    \/ MarshalNew
    \/ MarshalSeverity
    \/ MarshalPackageSeverity

MarshalSpec == MarshalInit /\ [][MarshalNext]_vars

\* the call was rendered by a JSON logger whose json.Marshal failed
MarshalFailed ==
    Rendered /\ loggers[last.lg].formatLogEvent = JsonFormat /\ marshalErr

StaticEnvironments ==
    [ LOG_PREFIX   : {""},
      LOG_LEVEL    : {""},
      LOG_FORMAT   : {[parses |-> TRUE, n |-> 0]},
      LOG_ENCODING : {""} ]

StaticConfigs == [Format : {PlainTextFormat, JsonFormat}, ID : {""}]
StaticLists == {<<>>, <<GoString("a"), GoString("x")>>}
StaticNames == {"a", "b"}
StaticValues == {GoString("x"), GoInt(1)}
StaticCallLists == {<<>>, <<GoString("a"), GoInt(2)>>, <<GoInt(1), GoString("a")>>}

StaticInit == Start(StaticEnvironments)

StaticNew ==
    /\ Len(loggers) = 1
    /\ NoCallYet
    /\ \E conf \in StaticConfigs, kv \in StaticLists : NewLogger(conf, kv)

StaticSetStaticField ==
    /\ NoCallYet
    /\ \E i \in 1..Len(loggers), name \in StaticNames, value \in StaticValues :
          LoggerSetStaticField(i, name, value)

StaticSeverity ==
    /\ NoCallYet
    /\ \E i \in 1..Len(loggers), rank \in {LevelError, LevelDebug}, kv \in StaticCallLists :
          Severity(i, rank, "msg", kv, {TRUE})

StaticNext ==
    \/ StaticNew
    \/ StaticSetStaticField
    \/ StaticSeverity

StaticSpec == StaticInit /\ [][StaticNext]_vars

\* the rendered event shows the field name = value, and shows it once
RendersField(msg, name, value) ==
    IF msg.kind = "text"
    THEN /\ Cardinality(EntriesNamed(msg, name)) = 1
         /\ \A j \in EntriesNamed(msg, name) : Entries(msg)[j].value = value
    ELSE name \in DOMAIN FieldsOf(msg) /\ FieldsOf(msg)[name] = value

\* C15: SetStaticField(name, value) on a logger puts name = the string form
\* of value into its static fields and changes nothing else: the fields set
\* before stay, a name set again takes the new value, and a call that
\* repeats the name and the value leaves the logger as it was.  A call that
\* is let through renders every static field of its logger that no
\* call-site key names, once and with its static value.
C15_StaticUpsert ==
    [][ /\ last'.op = "SetStaticField" =>
             LET i     == last'.lg
                 name  == last'.kv[1].s
                 value == Sprintf(last'.kv[2])
                 old   == loggers[i].staticArgs
                 new   == loggers'[i].staticArgs
             IN  /\ DOMAIN new = DOMAIN old \cup {name}
                 /\ new[name] = value
                 /\ \A k \in DOMAIN old \ {name} : new[k] = old[k]
                 /\ loggers' = [loggers EXCEPT ![i].staticArgs = new]
                 /\ (name \in DOMAIN old /\ old[name] = value) => loggers' = loggers
                 /\ sinks' = sinks
        /\ (last'.op = "log" /\ Len(last'.effects) > 0) =>
             LET msg    == last'.effects[1].line.msg
                 static == loggers'[last'.lg].staticArgs
             IN  \A k \in (DOMAIN static \ KeysOf(corruptCheck(last'.args))) \ {"golog_id"} :
                     RendersField(msg, k, static[k])
      ]_vars

\* C15 witness: a logger built with a = x, whose a was then set to 1 and
\* whose b was set, has rendered a call with a='1' and b as the fields
C15_Witness ==
    /\ Rendered /\ last.lg # DefaultLogger
    /\ loggers[last.lg].given = <<GoString("a"), GoString("x")>>
    /\ last.kv = <<>>
    /\ DOMAIN Static = {"a", "b"}
    /\ Static["a"] = "1"
    /\ Msg.kind = "text"
    /\ RendersField(Msg, "a", "1")
    /\ RendersField(Msg, "b", Static["b"])

(***************************************************************************)
(* LoggerSpec: a run of several operations on one logger.  Calls and       *)
(* changes of its static fields, threshold, timestamp flags and sink come  *)
(* in any order; the sinks accept every write and hold at most MaxLines    *)
(* lines together.                                                         *)
(***************************************************************************)
LoggerEnvironments ==
    [ LOG_PREFIX   : {"pre "},
      LOG_LEVEL    : {""},
      LOG_FORMAT   : {[parses |-> FALSE, n |-> 0]},
      LOG_ENCODING : {"", "json"} ]

RECURSIVE TotalLines(_)
TotalLines(ws) ==
    IF ws = {} THEN 0
    ELSE LET w == CHOOSE x \in ws : TRUE IN Len(sinks[w]) + TotalLines(ws \ {w})

LoggerInit == Start(LoggerEnvironments)

LoggerSeverity ==
    /\ TotalLines(Sinks) < MaxLines
    /\ \E rank \in {LevelError, LevelDebug} : Severity(DefaultLogger, rank, "msg", <<>>, {TRUE})

LoggerStaticField ==
    LoggerSetStaticField(DefaultLogger, "a", GoString("x"))

LoggerLevel ==
    \E level \in {LevelFatal, LevelDebug} : LoggerSetLevel(DefaultLogger, level)

LoggerFlags ==
    \E flags \in {FlagsNone, FlagsDefault} : LoggerSetTimestampFlags(DefaultLogger, flags)

LoggerOutput ==
    \E w \in Sinks : LoggerSetOutput(DefaultLogger, w)

LoggerNext ==
    \/ LoggerSeverity
    \/ LoggerStaticField
    \/ LoggerLevel
    \/ LoggerFlags
    \/ LoggerOutput

LoggerSpec == LoggerInit /\ [][LoggerNext]_vars

\* the lines a call of the given rank can write on logger s, one for each
\* order the static fields may be visited in
LinesOf(s, rank, description, keysAndValues) ==
    {logMessage(s, LevelName(rank), description, keysAndValues, order) :
        order \in Orders(DOMAIN s.staticArgs)}

\* C16: on a sink that accepts every write, each call that is let through
\* appends exactly one newline-terminated line, the one rendered from the
\* logger as it is at the call, to the end of the logger's sink; a gated
\* call and every change of configuration (SetStaticField, SetLevel,
\* SetTimestampFlags) leave every sink, and so every line already written,
\* as it was.  The sink therefore holds one line for each call let through,
\* in the order of the calls.
C16_LinesInOrder ==
    [][ IF last'.op = "log" /\ last'.rank <= loggers[last'.lg].level
        THEN \E line \in LinesOf(loggers[last'.lg], last'.rank, last'.description, last'.args) :
                /\ line.nl = "\n"
                /\ sinks' = [sinks EXCEPT ![loggers[last'.lg].l.out] = Append(@, line)]
        ELSE sinks' = sinks
      ]_vars

\* C16 witness: two different lines on the sink, the second with a static
\* field the first does not have, and the timestamp flags changed afterwards
C16_Witness ==
    /\ Len(sinks["stdout"]) = 2
    /\ sinks["stdout"][1].stamp # ""
    /\ DOMAIN sinks["stdout"][1].msg.doc = {"ts", "lvl", "msg", "fields"}
    /\ "a" \notin DOMAIN sinks["stdout"][1].msg.doc["fields"]
    /\ "a" \in DOMAIN sinks["stdout"][2].msg.doc["fields"]
    /\ last.op = "SetTimestampFlags"
    /\ loggers[DefaultLogger].l.flags = FlagsNone

\* C17: lg.SetOutput(w2) makes w2 the logger's sink and changes nothing
\* else of the logger: its prefix, timestamp flags (also those its lines are
\* decorated with), threshold and static fields stay, and nothing is
\* written.  No other operation on the logger changes its sink, and a call
\* that is let through writes its line to the logger's sink and to no other;
\* so after SetOutput(w2) the calls write to w2 and the previous sink gets
\* nothing more.
C17_SetOutputFrame ==
    [][ LET i == last'.lg
            s == loggers[i]
            t == loggers'[i]
        IN  /\ last'.op = "SetOutput" =>
                 /\ t.l.out = last'.kv[1].s
                 /\ t = [s EXCEPT !.l.out = last'.kv[1].s]
                 /\ t.l.prefix = t.prefix /\ t.l.flags = t.flags
                 /\ sinks' = sinks
            /\ last'.op # "SetOutput" => t.l.out = s.l.out
            /\ (last'.op = "log" /\ last'.rank <= s.level) =>
                 /\ Len(sinks'[s.l.out]) = Len(sinks[s.l.out]) + 1
                 /\ \A w \in Sinks \ {s.l.out} : sinks'[w] = sinks[w]
      ]_vars

\* C17 witness: a line on stdout, then SetOutput(w2) on a logger with a
\* prefix and timestamp flags, then a line on w2 with the same prefix and
\* header
C17_Witness ==
    /\ last.op = "log"
    /\ loggers[last.lg].l.out = "w2"
    /\ Len(sinks["stdout"]) = 1 /\ Len(sinks["w2"]) = 1
    /\ sinks["w2"][1] = last.effects[1].line
    /\ sinks["w2"][1].prefix = "pre " /\ sinks["w2"][1].stamp # ""
    /\ sinks["w2"][1] = sinks["stdout"][1]

(***************************************************************************)
(* OutputSpec: the package-level sink and prefix.  SetOutput, SetPrefix,   *)
(* lg.SetOutput, one New and calls (through the package-level Error and    *)
(* through lg.Error) come in any order; the sinks accept every write and   *)
(* hold at most MaxLines lines together.                                   *)
(***************************************************************************)
OutputEnvironments ==
    [ LOG_PREFIX   : {""},
      LOG_LEVEL    : {""},
      LOG_FORMAT   : {[parses |-> TRUE, n |-> 0]},
      LOG_ENCODING : {"", "json"} ]

OutputInit == Start(OutputEnvironments)

OutputSetOutput == \E w \in Sinks : SetOutput(w)

OutputLoggerSetOutput == \E i \in 1..Len(loggers), w \in Sinks : LoggerSetOutput(i, w)

OutputSetPrefix == SetPrefix("p ")

OutputNew ==
    /\ Len(loggers) = 1
    /\ NewLogger([Format |-> PlainTextFormat, ID |-> ""], <<>>)

OutputSeverity ==
    /\ TotalLines(Sinks) < MaxLines
    /\ \E i \in 1..Len(loggers) : Severity(i, LevelError, "msg", <<>>, {TRUE})

OutputPackageSeverity ==
    /\ TotalLines(Sinks) < MaxLines
    /\ PackageSeverity(LevelError, "", "msg", <<>>, {TRUE})

OutputNext ==
    \/ OutputSetOutput
    \/ OutputLoggerSetOutput
    \/ OutputSetPrefix
    \/ OutputNew
    \/ OutputSeverity
    \/ OutputPackageSeverity

OutputSpec == OutputInit /\ [][OutputNext]_vars

\* the loggers other than i are as they were
OthersKept(i) ==
    \A j \in 1..Len(loggers) : j # i => loggers'[j] = loggers[j]

\* C18: the package-level SetOutput(w) makes w the sink of the default
\* logger and leaves the loggers created before as they were; a logger New
\* creates writes to the w of the latest package-level SetOutput (the
\* initial writer when there was none); DefaultLogger.SetOutput(w) changes
\* the sink of the default logger only, also for the loggers created later.
\* A call writes to the sink of its logger.
C18_PackageSetOutput ==
    [][ /\ (last'.op = "SetOutput" /\ last'.pkg) =>
              /\ loggers'[DefaultLogger'].l.out = last'.kv[1].s
              /\ told'.output = last'.kv[1].s
              /\ OthersKept(DefaultLogger)
        /\ (last'.op = "SetOutput" /\ ~last'.pkg) =>
              /\ loggers'[last'.lg].l.out = last'.kv[1].s
              /\ told'.output = told.output
              /\ OthersKept(last'.lg)
        /\ last'.op = "New" =>
              /\ loggers'[last'.lg].l.out = told.output
              /\ OthersKept(last'.lg)
        /\ (last'.op = "log" /\ Len(last'.effects) > 0) =>
              sinks' = [sinks EXCEPT ![loggers[last'.lg].l.out] =
                                         Append(@, last'.effects[1].line)]
      ]_vars

\* C18 witness: DefaultLogger.SetOutput(w2) was called, no package-level
\* SetOutput, and the logger created afterwards has written to stdout while
\* the default logger has written to w2
C18_Witness ==
    /\ Len(loggers) = 2
    /\ told.output = "stdout"
    /\ loggers[DefaultLogger].l.out = "w2"
    /\ loggers[2].l.out = "stdout"
    /\ Len(sinks["w2"]) = 1 /\ Len(sinks["stdout"]) = 1
    /\ last.op = "log" /\ last.lg = 2

\* the prefix and header decorations of the logger at index i, in loggers'
PrefixKept(i) ==
    /\ loggers'[i].prefix = loggers[i].prefix
    /\ loggers'[i].l.prefix = loggers[i].l.prefix

\* C19 as stated: once SetPrefix(p) was called, every line written through
\* the package-level functions and by the plaintext loggers created
\* afterwards begins with p; the loggers created before keep their prefix,
\* also through SetOutput.
C19_PrefixOnEveryLine ==
    [][ /\ (last'.op = "log" /\ last'.pkg /\ Len(last'.effects) > 0) =>
              last'.effects[1].line.prefix = told.prefix
        /\ (last'.op = "New" /\ loggers'[last'.lg].formatLogEvent = PlainTextFormat) =>
              loggers'[last'.lg].l.prefix = told.prefix
        /\ last'.op = "SetPrefix" =>
              \A j \in 1..Len(loggers) : j # DefaultLogger => loggers'[j] = loggers[j]
        /\ last'.op = "SetOutput" => PrefixKept(last'.lg)
      ]_vars

\* C19 as amended: the same for a default logger that renders plaintext; a
\* JSON default logger (LOG_ENCODING=json) writes its lines without prefix
\* and carries p, when p is not empty, as the static field prefix of the
\* document.  A logger writes its lines with the prefix it has.
C19_PrefixOrField ==
    [][ /\ (last'.op = "log" /\ Len(last'.effects) > 0) =>
              LET line == last'.effects[1].line
                  s    == loggers[last'.lg]
              IN  /\ line.prefix = s.l.prefix
                  /\ last'.pkg =>
                        IF s.formatLogEvent = PlainTextFormat
                        THEN line.prefix = told.prefix
                        ELSE /\ line.prefix = ""
                             /\ told.prefix # "" =>
                                   /\ "prefix" \in DOMAIN FieldsOf(line.msg)
                                   /\ FieldsOf(line.msg)["prefix"] = told.prefix
                             /\ told.prefix = "" => "prefix" \notin DOMAIN FieldsOf(line.msg)
        /\ (last'.op = "New" /\ loggers'[last'.lg].formatLogEvent = PlainTextFormat) =>
              /\ loggers'[last'.lg].l.prefix = told.prefix
              /\ loggers'[last'.lg].prefix = told.prefix
        /\ last'.op = "SetPrefix" =>
              \A j \in 1..Len(loggers) : j # DefaultLogger => loggers'[j] = loggers[j]
        /\ last'.op = "SetOutput" => PrefixKept(last'.lg)
      ]_vars

\* C19 witness: a logger created before SetPrefix("p ") has written a line
\* without prefix after a SetOutput on it, and the package-level Error has
\* written a line that begins with "p "
C19_Witness ==
    /\ told.prefix = "p "
    /\ Len(loggers) = 2 /\ loggers[2].l.prefix = "" /\ loggers[2].l.out = "w2"
    /\ Len(sinks["w2"]) = 1 /\ sinks["w2"][1].prefix = ""
    /\ Len(sinks["stdout"]) = 1 /\ sinks["stdout"][1].prefix = "p "
    /\ last.op = "log" /\ last.pkg

(***************************************************************************)
(* RaceSpec: two goroutines on one logger.  One is inside a severity       *)
(* method, which here takes several steps: the gate and the start of the   *)
(* range over s.staticArgs, one step for each key the range visits, and    *)
(* s.l.Println.  The other calls SetStaticField, SetLevel and SetOutput.   *)
(* The code has no lock, so the steps interleave freely.  A write to the   *)
(* map while the range is in progress is a data race: the Go runtime may   *)
(* abort the process (concurrent map iteration and map write), or the      *)
(* range may produce the new entry, or skip it.                            *)
(***************************************************************************)
RaceEnvironments ==
    [ LOG_PREFIX   : {""},
      LOG_LEVEL    : {""},
      LOG_FORMAT   : {[parses |-> TRUE, n |-> 0]},
      LOG_ENCODING : {""} ]

RaceInit == Start(RaceEnvironments)

\* the call in progress is on logger i
InProgress(i) == inflight.stage = "range" /\ inflight.lg = i

\* the call in progress, if it is on logger i, has raced on the field
Raced(i, field) ==
    IF InProgress(i) THEN [inflight EXCEPT !.races = @ \cup {field}] ELSE inflight

\* s.Error(description, kv...) up to the start of the range over s.staticArgs
RaceBegin(i, rank, description, keysAndValues) ==
    /\ inflight.stage = "idle"
    /\ NoCallYet
    /\ IF gatedOut(loggers[i], rank)
       THEN /\ last' = [ op |-> "log", pkg |-> FALSE, lg |-> i, rank |-> rank,
                         description |-> description, id |-> "", kv |-> keysAndValues,
                         args |-> keysAndValues, after |-> keysAndValues,
                         effects |-> <<>> ]
            /\ UNCHANGED inflight
       ELSE /\ \E order \in Orders(DOMAIN loggers[i].staticArgs) :
                 inflight' = [ stage |-> "range", lg |-> i, rank |-> rank,
                               description |-> description, kv |-> keysAndValues,
                               args |-> corruptCheck(keysAndValues), todo |-> order,
                               flags |-> loggers[i].flags, l |-> loggers[i].l,
                               races |-> {} ]
            /\ UNCHANGED last
    /\ UNCHANGED <<defaultPrefix, defaultOutput, defaultLevel, defaultFlags, envEncoding, environ,
                   loggers, DefaultLogger, sinks, marshalErr, told>>

\* one round of `for key, value := range staticFields`
RaceRange ==
    /\ inflight.stage = "range"
    /\ Len(inflight.todo) > 0
    /\ inflight' = [inflight EXCEPT
                       !.todo = Tail(@),
                       !.args = prependStatic(loggers[inflight.lg].staticArgs,
                                              <<Head(inflight.todo)>>, @)]
    /\ UNCHANGED <<defaultPrefix, defaultOutput, defaultLevel, defaultFlags, envEncoding, environ,
                   loggers, DefaultLogger, sinks, marshalErr, told, last>>

\* the rest of the renderer and s.l.Println(msg); s.l is read without
\* synchronisation, so after a concurrent SetOutput the old or the new
\* log.Logger may be the one that is used
RacePrintln ==
    /\ inflight.stage = "range"
    /\ Len(inflight.todo) = 0
    /\ \E l \in {inflight.l, loggers[inflight.lg].l} :
         LET msg == formatLogEventAsPlainText(inflight.flags, LevelName(inflight.rank),
                        inflight.description, EmptyMap, <<>>, inflight.args)
             effects == <<WriteEffect(l.out, Println(l, msg), TRUE)>>
         IN  /\ sinks' = deliver(sinks, effects)
             /\ last' = [ op |-> "log", pkg |-> FALSE, lg |-> inflight.lg,
                          rank |-> inflight.rank, description |-> inflight.description,
                          id |-> "", kv |-> inflight.kv, args |-> inflight.kv,
                          after |-> IF Len(inflight.args) = Len(inflight.kv)
                                    THEN removeInPlace(inflight.kv, idPosition(inflight.kv))
                                    ELSE inflight.kv,
                          effects |-> effects ]
    /\ inflight' = [inflight EXCEPT !.stage = "done"]
    /\ UNCHANGED <<defaultPrefix, defaultOutput, defaultLevel, defaultFlags, envEncoding, environ,
                   loggers, DefaultLogger, marshalErr, told>>

\* (mutant) SetStaticField waits until no call is in progress on the logger
RaceSetStaticFieldLocked(i, name, value) ==
    /\ ~InProgress(i)
    /\ inflight.stage # "crashed"
    /\ loggers' = [loggers EXCEPT ![i].staticArgs = Put(@, name, Sprintf(value))]
    /\ last' = [NoLast EXCEPT !.op = "SetStaticField", !.lg = i,
                              !.kv = <<GoString(name), value>>]
    /\ UNCHANGED <<defaultPrefix, defaultOutput, defaultLevel, defaultFlags, envEncoding, environ,
                   DefaultLogger, sinks, marshalErr, told, inflight>>

\* lg.SetStaticField(name, value) from the other goroutine
RaceSetStaticField(i, name, value) ==
    /\ inflight.stage # "crashed"
    /\ \E outcome \in {"abort", "produced", "skipped"} :
         /\ (outcome # "skipped") => InProgress(i)
         /\ inflight' =
              CASE outcome = "abort" -> [Raced(i, "staticArgs") EXCEPT !.stage = "crashed"]
                [] outcome = "produced" ->
                     [Raced(i, "staticArgs") EXCEPT
                         !.todo = IF name \in DOMAIN loggers[i].staticArgs
                                  THEN @ ELSE Append(@, name)]
                [] outcome = "skipped" -> Raced(i, "staticArgs")
    /\ loggers' = [loggers EXCEPT ![i].staticArgs = Put(@, name, Sprintf(value))]
    /\ last' = [NoLast EXCEPT !.op = "SetStaticField", !.lg = i,
                              !.kv = <<GoString(name), value>>]
    /\ UNCHANGED <<defaultPrefix, defaultOutput, defaultLevel, defaultFlags, envEncoding, environ,
                   DefaultLogger, sinks, marshalErr, told>>

\* lg.SetLevel(level) from the other goroutine
RaceSetLevel(i, level) ==
    /\ inflight.stage # "crashed"
    /\ loggers' = [loggers EXCEPT ![i].level = level]
    /\ inflight' = Raced(i, "level")
    /\ last' = [NoLast EXCEPT !.op = "SetLevel", !.lg = i]
    /\ UNCHANGED <<defaultPrefix, defaultOutput, defaultLevel, defaultFlags, envEncoding, environ,
                   DefaultLogger, sinks, marshalErr, told>>

\* lg.SetOutput(w) from the other goroutine
RaceSetOutput(i, w) ==
    /\ inflight.stage # "crashed"
    /\ loggers' = [loggers EXCEPT ![i].l =
                       [out |-> w, prefix |-> loggers[i].prefix, flags |-> loggers[i].flags]]
    /\ inflight' = Raced(i, "l")
    /\ last' = [NoLast EXCEPT !.op = "SetOutput", !.lg = i, !.kv = <<GoString(w)>>]
    /\ UNCHANGED <<defaultPrefix, defaultOutput, defaultLevel, defaultFlags, envEncoding, environ,
                   DefaultLogger, sinks, marshalErr, told>>

RaceNames == {"a", "b"}
RaceLists == {<<>>, <<GoString("a"), GoInt(1)>>}

RaceCall ==
    \E kv \in RaceLists : RaceBegin(DefaultLogger, LevelError, "msg", kv)

RaceStaticField ==
    \E name \in RaceNames : RaceSetStaticField(DefaultLogger, name, GoString("x"))

RaceLevel ==
    \E level \in {LevelFatal, LevelDebug} : RaceSetLevel(DefaultLogger, level)

RaceOutput ==
    \E w \in Sinks : RaceSetOutput(DefaultLogger, w)

RaceNext ==
    \/ RaceCall
    \/ RaceRange
    \/ RacePrintln
    \/ RaceStaticField
    \/ RaceLevel
    \/ RaceOutput

RaceSpec == RaceInit /\ [][RaceNext]_vars

\* C20: nothing excludes the setters while a call is in progress: whenever
\* a severity method is inside the range over the static fields of a
\* logger, SetStaticField, SetLevel and SetOutput on that logger can take
\* their step, so the map can be written while the renderer iterates it.
C20_NoMutualExclusion ==
    \A i \in 1..Len(loggers) :
        InProgress(i) =>
            /\ ENABLED RaceSetStaticField(i, "a", GoString("x"))
            /\ ENABLED RaceSetLevel(i, LevelFatal)
            /\ ENABLED RaceSetOutput(i, "w2")

\* C20 witness: the range over the static fields has keys left to visit, and
\* the map, the threshold and the sink were written since the call began
C20_Witness ==
    /\ inflight.stage = "range"
    /\ Len(inflight.todo) > 0
    /\ inflight.races = {"staticArgs", "level", "l"}
    /\ loggers[inflight.lg].l # inflight.l
    /\ loggers[inflight.lg].level < inflight.rank

(***************************************************************************)
(* ResetSpec: the default logger across SetPrefix.  Its threshold is set   *)
(* through the package-level SetLevel and through DefaultLogger.SetLevel,  *)
(* a static field is set on it, SetPrefix is called, and the package-level *)
(* functions write lines (at most MaxLines), in any order.                 *)
(***************************************************************************)
ResetEnvironments ==
    [ LOG_PREFIX   : {"", "pre "},
      LOG_LEVEL    : {"", "ERROR"},
      LOG_FORMAT   : {[parses |-> TRUE, n |-> 0]},
      LOG_ENCODING : {"", "json"} ]

ResetInit == Start(ResetEnvironments)

ResetSetLevel == SetLevel(LevelDebug)

ResetLoggerSetLevel == LoggerSetLevel(DefaultLogger, LevelTrace)

ResetSetStaticField == LoggerSetStaticField(DefaultLogger, "a", GoString("x"))

ResetSetPrefix == \E prefix \in {"", "p "} : SetPrefix(prefix)

ResetPackageSeverity ==
    /\ TotalLines(Sinks) < MaxLines
    /\ \E rank \in {LevelError, LevelTrace} : PackageSeverity(rank, "", "msg", <<>>, {TRUE})

ResetNext ==
    \/ ResetSetLevel
    \/ ResetLoggerSetLevel
    \/ ResetSetStaticField
    \/ ResetSetPrefix
    \/ ResetPackageSeverity

ResetSpec == ResetInit /\ [][ResetNext]_vars

\* C21 as stated: SetPrefix leaves the default logger with the threshold
\* derived from LOG_LEVEL and without the static fields set on it before,
\* whatever SetLevel and SetStaticField were applied before.
C21_ResetToEnvironment ==
    [][ last'.op = "SetPrefix" =>
          /\ loggers'[DefaultLogger'].level = levelFromEnv(environ.LOG_LEVEL)
          /\ DOMAIN loggers'[DefaultLogger'].staticArgs \subseteq {"prefix"}
      ]_vars

\* C21 as amended: SetPrefix(p) leaves the default logger with the
\* package-level threshold in force (the one derived from LOG_LEVEL, or the
\* argument of the latest package-level SetLevel) and with the static fields
\* of a new logger: prefix = p for a JSON logger when p is not empty, and
\* none otherwise.  A threshold set through DefaultLogger.SetLevel and the
\* fields set through SetStaticField are gone.  The package-level threshold
\* changes through the package-level SetLevel only.
C21_ResetToPackageDefaults ==
    /\ told.level = levelFromEnv(environ.LOG_LEVEL)
    /\ [][ /\ last'.op = "SetPrefix" =>
                LET d == loggers'[DefaultLogger']
                    p == last'.kv[1].s
                IN  /\ d.level = told.level
                    /\ d.staticArgs = IF d.formatLogEvent = JsonFormat /\ p # ""
                                      THEN Put(EmptyMap, "prefix", p) ELSE EmptyMap
                    /\ d.formatLogEvent = loggers[DefaultLogger].formatLogEvent
           /\ told'.level = IF last'.op = "SetLevel" /\ last'.pkg
                            THEN last'.kv[1].n ELSE told.level
           /\ defaultLevel' = told'.level
         ]_vars

\* C21 witness: with LOG_LEVEL=ERROR, after SetLevel(LevelDebug),
\* DefaultLogger.SetLevel(LevelTrace) and SetStaticField, a Trace line with
\* the field a was written; after SetPrefix the threshold is LevelDebug and
\* the line written next has no field a
C21_Witness ==
    /\ environ.LOG_LEVEL = "ERROR"
    /\ told.level = LevelDebug
    /\ told.prefix = "p "
    /\ loggers[DefaultLogger].level = LevelDebug
    /\ DOMAIN loggers[DefaultLogger].staticArgs = {}
    /\ Len(sinks["stdout"]) = 2
    /\ sinks["stdout"][1].msg.items = <<"TRACE", "msg", "a='x'">>
    /\ sinks["stdout"][2].msg.items = <<"ERROR", "msg">>
    /\ sinks["stdout"][2].prefix = "p "

FirstValue(list, name) ==
    LET at == {i \in KeyPositions(list) : Sprintf(list[i]) = name}
        i  == CHOOSE x \in at : \A y \in at : x <= y
    IN  Sprintf(list[i + 1])
\* the channel id of a rendered event: the channel segment of a plaintext
\* line, the field golog_id of a JSON document
ChannelId(msg) ==
    IF msg.kind = "text" THEN msg.id
    ELSE IF "golog_id" \in DOMAIN FieldsOf(msg) THEN FieldsOf(msg)["golog_id"] ELSE ""
\* the static list New was given holds a golog_id pair that New reads
StaticListHasId(i) ==
    Len(loggers[i].given) % 2 = 0 /\ "golog_id" \in KeysOf(loggers[i].given)

\* C23: the channel id resolves with call-site precedence.  A logger New
\* built has the static field golog_id = Config.ID when Config.ID is not
\* empty, unless its static list (of even length) holds a golog_id pair,
\* whose value it then has; a static list of odd length leaves Config.ID in
\* place.  A call renders as channel id the value of a golog_id pair of the
\* call site when there is one (the pairs of an odd-length list being those
\* logMessage makes of it) and the static golog_id otherwise; the static
\* fields of the logger are the same after the call.
C23_IdPrecedence ==
    /\ \A i \in 1..Len(loggers) :
          LET sa == loggers[i].staticArgs
          IN  IF StaticListHasId(i)
              THEN sa["golog_id"] = LastValue(loggers[i].given, "golog_id")
              ELSE IF loggers[i].conf.ID # ""
                   THEN "golog_id" \in DOMAIN sa /\ sa["golog_id"] = loggers[i].conf.ID
                   ELSE "golog_id" \notin DOMAIN sa
    /\ Rendered =>
          LET kvs == corruptCheck(last.args)
          IN  IF "golog_id" \in KeysOf(kvs)
              THEN ChannelId(Msg) = (IF Msg.kind = "text" THEN FirstValue(kvs, "golog_id")
                                     ELSE LastValue(kvs, "golog_id"))
              ELSE ChannelId(Msg) = StaticId

\* C23 witness: New(Config{ID: "id"}, "golog_id", "a") has rendered a call
\* with the pair golog_id, 1 in plaintext: the channel id is 1 and the
\* static golog_id is still a
C23_Witness ==
    /\ Rendered /\ ~last.pkg /\ Msg.kind = "text"
    /\ loggers[last.lg].conf.ID = "id"
    /\ loggers[last.lg].given = <<GoString("golog_id"), GoString("a")>>
    /\ last.kv = <<GoString("golog_id"), GoInt(1)>>
    /\ StaticId = "a"
    /\ Msg.id = "1"
    /\ Msg.items = <<"FATAL", "1", "msg">>

\* C23 witness of the odd static list: Config.ID is the channel id
C23_WitnessOddList ==
    /\ Rendered /\ ~last.pkg
    /\ loggers[last.lg].conf.ID = "id"
    /\ loggers[last.lg].given = <<GoString("golog_id"), GoString("a"), GoInt(1)>>
    /\ last.kv = <<>>
    /\ ChannelId(Msg) = "id"

\* the thresholds of the loggers other than i are as they were
OtherLevelsKept(i) ==
    \A j \in 1..Len(loggers) : j # i => loggers'[j].level = loggers[j].level

\* C24: the package-level level is the one derived from LOG_LEVEL until the
\* package-level SetLevel is called, and then the argument of its latest
\* call.  A logger New creates has the package-level level of that moment
\* as its threshold.  The package-level SetLevel(level) sets the threshold
\* of the default logger and of no other logger that exists; lg.SetLevel
\* sets the threshold of lg only and leaves the package-level level; no
\* other operation changes a threshold.
C24_LevelAtCreation ==
    /\ told.level = levelFromEnv(environ.LOG_LEVEL)
    /\ defaultLevel = told.level
    /\ [][ /\ last'.op = "New" =>
                /\ loggers'[last'.lg].level = told.level
                /\ last'.lg = Len(loggers) + 1
                /\ OtherLevelsKept(last'.lg)
           /\ (last'.op = "SetLevel" /\ last'.pkg) =>
                /\ loggers'[DefaultLogger'].level = last'.kv[1].n
                /\ OtherLevelsKept(DefaultLogger)
                /\ Len(loggers') = Len(loggers)
           /\ (last'.op = "SetLevel" /\ ~last'.pkg) =>
                /\ loggers'[last'.lg].level = last'.kv[1].n
                /\ OtherLevelsKept(last'.lg)
                /\ Len(loggers') = Len(loggers)
           /\ last'.op \notin {"New", "SetLevel"} =>
                /\ OtherLevelsKept(0)
                /\ Len(loggers') = Len(loggers)
           /\ told'.level = IF last'.op = "SetLevel" /\ last'.pkg
                            THEN last'.kv[1].n ELSE told.level
           /\ defaultLevel' = told'.level
         ]_vars

\* C24 witness: after the package-level SetLevel(LevelTrace + 1) and
\* DefaultLogger.SetLevel(LevelFatal), New has created a logger with the
\* threshold LevelTrace + 1
C24_Witness ==
    /\ last.op = "New"
    /\ Len(loggers) = 2
    /\ told.level = LevelTrace + 1
    /\ levelFromEnv(environ.LOG_LEVEL) # told.level
    /\ loggers[DefaultLogger].level = LevelFatal
    /\ loggers[2].level = LevelTrace + 1

\* C24 witness of the later SetLevel: the logger created before keeps its
\* threshold when the package-level SetLevel changes the default logger
C24_WitnessLater ==
    /\ last.op = "SetLevel" /\ last.pkg
    /\ Len(loggers) = 2
    /\ loggers[DefaultLogger].level = LevelFatal
    /\ loggers[2].level = LevelInfo
    /\ environ.LOG_LEVEL = ""

(***************************************************************************)
(* PrefixSpec: the prefix of JSON loggers.  SetPrefix is called, one       *)
(* logger is constructed from a static list that may hold the key prefix,  *)
(* and one call is rendered with a call-site list that may hold it too.    *)
(***************************************************************************)
PrefixEnvironments ==
    [ LOG_PREFIX   : {"", "pre "},
      LOG_LEVEL    : {""},
      LOG_FORMAT   : {[parses |-> FALSE, n |-> 0]},
      LOG_ENCODING : {"", "json"} ]

PrefixElems == {GoString("prefix"), GoString("x")}
PrefixLists == SeqsUpTo(PrefixElems, MaxFields - 2)
PrefixConfigs == [Format : {DefaultFormat, PlainTextFormat, JsonFormat}, ID : {""}]

PrefixInit == Start(PrefixEnvironments)

PrefixSetPrefix ==
    /\ NoCallYet
    /\ \E prefix \in {"", "p "} : SetPrefix(prefix)

PrefixNew ==
    /\ NoCallYet
    /\ Len(loggers) = 1
    /\ \E conf \in PrefixConfigs, kv \in PrefixLists : NewLogger(conf, kv)

PrefixSeverity ==
    /\ NoCallYet
    /\ \E i \in 1..Len(loggers), kv \in PrefixLists : Severity(i, LevelError, "msg", kv, {TRUE})

PrefixNext ==
    \/ PrefixSetPrefix
    \/ PrefixNew
    \/ PrefixSeverity

PrefixSpec == PrefixInit /\ [][PrefixNext]_vars

\* C25: a JSON logger New creates has the static field prefix = the global
\* prefix of that moment (LOG_PREFIX, or the argument of the latest
\* SetPrefix) when that is not empty and no field prefix when it is empty,
\* unless its static list (of even length) holds a prefix pair, whose value
\* it then has.  A later SetPrefix leaves the logger as it is.  The
\* document of a call has prefix = the value of the call site's prefix pair
\* when there is one, the static value otherwise, and no prefix when there
\* is neither.
C25_JsonPrefixField ==
    [][ /\ (last'.op = "New" /\ loggers'[last'.lg].formatLogEvent = JsonFormat) =>
              LET sa    == loggers'[last'.lg].staticArgs
                  given == loggers'[last'.lg].given
              IN  IF Len(given) % 2 = 0 /\ "prefix" \in KeysOf(given)
                  THEN sa["prefix"] = LastValue(given, "prefix")
                  ELSE IF told.prefix # ""
                       THEN "prefix" \in DOMAIN sa /\ sa["prefix"] = told.prefix
                       ELSE "prefix" \notin DOMAIN sa
        /\ last'.op = "SetPrefix" =>
              /\ OthersKept(DefaultLogger)
              /\ told'.prefix = last'.kv[1].s
        /\ last'.op # "SetPrefix" => told'.prefix = told.prefix
        /\ (last'.op = "log" /\ Len(last'.effects) > 0
              /\ loggers[last'.lg].formatLogEvent = JsonFormat) =>
              LET f   == FieldsOf(last'.effects[1].line.msg)
                  sa  == loggers[last'.lg].staticArgs
                  kvs == corruptCheck(last'.args)
              IN  /\ loggers' = loggers
                  /\ IF "prefix" \in KeysOf(kvs)
                     THEN f["prefix"] = LastValue(kvs, "prefix")
                     ELSE IF "prefix" \in DOMAIN sa
                          THEN f["prefix"] = sa["prefix"]
                          ELSE "prefix" \notin DOMAIN f
      ]_vars

\* C25 witness: a JSON logger created under LOG_PREFIX "pre " writes
\* prefix = "pre " after SetPrefix("p ") was called
C25_Witness ==
    /\ Rendered /\ last.lg = 2 /\ Msg.kind = "json"
    /\ environ.LOG_PREFIX = "pre " /\ told.prefix = "p "
    /\ loggers[2].given = <<>> /\ last.kv = <<>>
    /\ FieldsOf(Msg) = Put(EmptyMap, "prefix", "pre ")
    /\ Len(sinks["stdout"]) = 1

\* C25 witness of the overrides: the static list gives prefix = x, and the
\* call site's pair prefix, prefix is the one written
C25_WitnessOverride ==
    /\ Rendered /\ last.lg = 2 /\ Msg.kind = "json"
    /\ told.prefix = "p "
    /\ Static = Put(EmptyMap, "prefix", "x")
    /\ last.kv = <<GoString("prefix"), GoString("prefix")>>
    /\ FieldsOf(Msg) = Put(EmptyMap, "prefix", "prefix")

\* C25 witness of the empty global prefix: a document without fields
C25_WitnessEmpty ==
    /\ Rendered /\ last.lg = 2 /\ Msg.kind = "json"
    /\ told.prefix = "" /\ environ.LOG_PREFIX = "pre "
    /\ loggers[2].given = <<>> /\ last.kv = <<>>
    /\ "fields" \notin DOMAIN Msg.doc

(***************************************************************************)
(* SanitizeSpec: SanitizeFormat.  LOG_ENCODING holds any of a few values   *)
(* and may be set anew between the calls (the function reads it at each    *)
(* call); SanitizeFormat is called with any format, directly and through   *)
(* New.                                                                    *)
(***************************************************************************)
Encodings == {"", "text", "json", "whut", "JSON"}

SanitizeEnvironments ==
    [ LOG_PREFIX   : {""},
      LOG_LEVEL    : {""},
      LOG_FORMAT   : {[parses |-> TRUE, n |-> 0]},
      LOG_ENCODING : Encodings ]

SanitizeInit == Start(SanitizeEnvironments)

\* os.Setenv("LOG_ENCODING", value), seen by the os.Getenv of the next call
Setenv(value) ==
    /\ envEncoding' = value
    /\ environ' = [environ EXCEPT !.LOG_ENCODING = value]
    /\ last' = [NoLast EXCEPT !.op = "Setenv", !.kv = <<GoString(value)>>]
    /\ UNCHANGED <<defaultPrefix, defaultOutput, defaultLevel, defaultFlags,
                   loggers, DefaultLogger, sinks, marshalErr, told, inflight>>

\* r := SanitizeFormat(format), and SanitizeFormat(r)
CallSanitizeFormat(format) ==
    /\ last' = [NoLast EXCEPT !.op = "SanitizeFormat", !.kv = <<GoString(format)>>,
                   !.args = <<GoString(SanitizeFormat(format)),
                              GoString(SanitizeFormat(SanitizeFormat(format)))>>]
    /\ UNCHANGED <<defaultPrefix, defaultOutput, defaultLevel, defaultFlags, envEncoding, environ,
                   loggers, DefaultLogger, sinks, marshalErr, told, inflight>>

SanitizeSetenv == \E value \in Encodings : Setenv(value)

SanitizeCall == \E format \in Encodings : CallSanitizeFormat(format)

SanitizeNew ==
    /\ Len(loggers) = 1
    /\ \E format \in Encodings : NewLogger([Format |-> format, ID |-> ""], <<>>)

SanitizeNext ==
    \/ SanitizeSetenv
    \/ SanitizeCall
    \/ SanitizeNew

SanitizeSpec == SanitizeInit /\ [][SanitizeNext]_vars

Formats == {PlainTextFormat, JsonFormat}

\* C26: SanitizeFormat returns its argument when that is "text" or "json";
\* for any other argument it returns LOG_ENCODING when that is "text" or
\* "json" and "text" otherwise.  The result is one of the two formats, and
\* SanitizeFormat applied to the result returns the result.  The format of
\* every logger is one of the two.
C26_SanitizeFormat ==
    /\ last.op = "SanitizeFormat" =>
          LET format == last.kv[1].s
              result == last.args[1].s
              again  == last.args[2].s
          IN  /\ format \in Formats => result = format
              /\ (format \notin Formats /\ envEncoding \in Formats) => result = envEncoding
              /\ (format \notin Formats /\ envEncoding \notin Formats) => result = "text"
              /\ result \in Formats
              /\ again = result
    /\ \A i \in 1..Len(loggers) : loggers[i].formatLogEvent \in Formats

\* C26 witness: with LOG_ENCODING=json, SanitizeFormat("whut") is "json"
C26_Witness ==
    /\ last.op = "SanitizeFormat"
    /\ envEncoding = "json"
    /\ last.kv = <<GoString("whut")>>
    /\ last.args = <<GoString("json"), GoString("json")>>

\* C26 witness of the fallback: neither the argument nor LOG_ENCODING is a
\* format ("JSON" is not "json"), and the result is "text"
C26_WitnessFallback ==
    /\ last.op = "SanitizeFormat"
    /\ envEncoding = "JSON"
    /\ last.kv = <<GoString("")>>
    /\ last.args = <<GoString("text"), GoString("text")>>

JsonLines == {line \in UNION {{sinks[w][k] : k \in 1..Len(sinks[w])} : w \in Sinks} :
                 line.msg.kind = "json"}

\* C28: every line a JSON logger writes is the JSON document and the line
\* terminator, with no prefix and no timestamp or file-location decoration
\* before the document, whatever SetOutput and SetTimestampFlags calls came
\* before.
C28_JsonLineBare ==
    \A line \in JsonLines :
        /\ line.prefix = ""
        /\ line.stamp = ""
        /\ line.nl = "\n"

\* C28 restricted to loggers whose timestamp flags are FlagsNone at the
\* call: the line of a JSON logger has no prefix and no decoration
C28_JsonLineBareNoFlags ==
    (Rendered /\ Msg.kind = "json") =>
        /\ last.effects[1].line.prefix = ""
        /\ last.effects[1].line.nl = "\n"
        /\ loggers[last.lg].flags = FlagsNone => last.effects[1].line.stamp = ""

(***************************************************************************)
(* FlagsSpec: the timestamp flags.  LOG_FORMAT holds no number, 0 or -1;   *)
(* the flags are set through the package-level SetTimestampFlags and       *)
(* through lg.SetTimestampFlags, to values that include a negative one,    *)
(* the sinks are changed, one logger is constructed, and then one call is  *)
(* rendered.                                                               *)
(***************************************************************************)
FlagValues == {FlagsNone - 1, FlagsNone, FlagsDate, FlagsShortFile}

FlagsEnvironments ==
    [ LOG_PREFIX   : {""},
      LOG_LEVEL    : {""},
      LOG_FORMAT   : {[parses |-> FALSE, n |-> 0], [parses |-> TRUE, n |-> FlagsNone],
                      [parses |-> TRUE, n |-> FlagsNone - 1]},
      LOG_ENCODING : {"", "json"} ]

FlagsInit == Start(FlagsEnvironments)

FlagsSetTimestampFlags ==
    /\ NoCallYet
    /\ \E flags \in FlagValues : SetTimestampFlags(flags)

FlagsLoggerSetTimestampFlags ==
    /\ NoCallYet
    /\ \E i \in 1..Len(loggers), flags \in FlagValues : LoggerSetTimestampFlags(i, flags)

FlagsLoggerSetOutput ==
    /\ NoCallYet
    /\ \E i \in 1..Len(loggers), w \in Sinks : LoggerSetOutput(i, w)

FlagsNew ==
    /\ NoCallYet
    /\ Len(loggers) = 1
    /\ NewLogger([Format |-> PlainTextFormat, ID |-> "id"], <<>>)

FlagsSeverity ==
    /\ NoCallYet
    /\ \E i \in 1..Len(loggers) : Severity(i, LevelError, "msg", <<>>, {TRUE})

FlagsNext ==
    \/ FlagsSetTimestampFlags
    \/ FlagsLoggerSetTimestampFlags
    \/ FlagsLoggerSetOutput
    \/ FlagsNew
    \/ FlagsSeverity

FlagsSpec == FlagsInit /\ [][FlagsNext]_vars

\* C29: after any sequence of SetTimestampFlags and SetOutput calls the
\* flags a logger hands to its formatter are the flags of its log.Logger,
\* and the line is decorated by these flags.  A plaintext line has the empty
\* placeholder segment before the severity name exactly when the flags are
\* greater than FlagsNone, and begins with the severity name when they are
\* FlagsNone.
C29_FlagsInStep ==
    /\ \A i \in 1..Len(loggers) : loggers[i].flags = loggers[i].l.flags
    /\ Rendered =>
          LET flags == loggers[last.lg].flags
              line  == last.effects[1].line
          IN  /\ line.stamp = stamp(flags)
              /\ Msg.kind = "text" =>
                    /\ (Msg.items[1] = "" /\ Msg.items[2] = LevelName(last.rank))
                          <=> flags > FlagsNone
                    /\ flags = FlagsNone =>
                          /\ Msg.items[1] = LevelName(last.rank)
                          /\ line.stamp = ""
                    /\ flags <= FlagsNone => Msg.items[1] = LevelName(last.rank)

\* C29 witness: with LOG_FORMAT=0, after SetTimestampFlags(FlagsShortFile)
\* and SetOutput(w2) on a constructed logger, its line on w2 has the file
\* decoration and the placeholder
C29_Witness ==
    /\ Rendered /\ last.lg = 2 /\ Msg.kind = "text"
    /\ environ.LOG_FORMAT = [parses |-> TRUE, n |-> FlagsNone]
    /\ loggers[2].flags = FlagsShortFile
    /\ loggers[2].l.out = "w2"
    /\ Len(sinks["w2"]) = 1
    /\ sinks["w2"][1].stamp = "<file>: "
    /\ sinks["w2"][1].msg.items = <<"", "ERROR", "id", "msg">>

\* C29 witness of FlagsNone: the line begins with the severity name
C29_WitnessNone ==
    /\ Rendered /\ last.lg = 2 /\ Msg.kind = "text"
    /\ environ.LOG_FORMAT.parses = FALSE
    /\ loggers[2].flags = FlagsNone
    /\ loggers[2].l.out = "w2"
    /\ sinks["w2"] = <<[prefix |-> "", stamp |-> "", msg |-> Msg, nl |-> "\n"]>>
    /\ Msg.text = "ERROR | id | msg"

\* C30: a call of a severity method, gated or not, leaves the slice of
\* keys and values the caller passed in with the contents it had, also when
\* the slice holds a golog_id pair that the plaintext renderer takes out as
\* the channel id.
C30_ArgumentsKept ==
    last.op = "log" => last.after = last.kv

\* C30, the configuration: a call of a severity method, gated or not, leaves
\* the threshold, static fields, flags, prefix and sink of every logger, and
\* the package-level values, as they were
C30_ConfigurationKept ==
    [][ last'.op = "log" =>
          /\ loggers' = loggers
          /\ DefaultLogger' = DefaultLogger
          /\ <<defaultPrefix, defaultOutput, defaultLevel, defaultFlags>>' =
                <<defaultPrefix, defaultOutput, defaultLevel, defaultFlags>>
      ]_vars

\* C30 restricted to the calls whose arguments the renderer does not write
\* to: a gated call, a JSON logger, an odd-length list, a list without a
\* golog_id pair or with it as the last pair, a logger with a static field
\* the call site does not name, and the package-level functions
C30_ArgumentsKeptOtherwise ==
    (last.op = "log" /\ last.after # last.kv) =>
        /\ ~last.pkg
        /\ Rendered /\ Msg.kind = "text"
        /\ Len(last.kv) % 2 = 0
        /\ idPosition(last.kv) # 0
        /\ idPosition(last.kv) + 2 <= Len(last.kv)
        /\ DOMAIN Static \subseteq KeysOf(last.kv)

====
